---- MODULE Spec2Model ----
(***************************************************************************)
(* Model of the extension background orchestrator (service worker):        *)
(* per-tab state store, badge state machine, page-load scans               *)
(* (handleScoutSignal), the periodic rescanner, the runtime message        *)
(* listener and the link-safety cache.                                     *)
(***************************************************************************)
EXTENDS Integers, FiniteSets, Sequences, TLC

\* ------------------------------------------------------------------ bounds
NumTabs == 2
MaxRequests == 2
MaxNavs == 1
MaxTicks == 3

Tabs == 1..NumTabs
NoTab == 0

\* ------------------------------------------------------------------ URLs
\* A URL is kept as its href string; HostLabels is the hostname that
\* `new URL(href).hostname` yields, split at the dots.
SiteA == "https://a.com/"
SiteB == "https://b.com/"
LocalhostUrl == "http://localhost:3000/"
LoopbackUrl == "http://127.0.0.1:8000/"
DotLocalUrl == "http://printer.local/"

TabUrls == {SiteA, SiteB, LocalhostUrl, LoopbackUrl, DotLocalUrl}

\* strings that new URL(...) rejects, as a message may carry them in signals.url
MalformedUrls == {"not a url", "localhost"}

\* what tabUrl holds for a tab that was closed (chrome.tabs.onRemoved fired)
Removed == "removed"

ParsesAsUrl(u) == u \in TabUrls

HostLabels(u) ==
  CASE u = SiteA -> <<"a", "com">>
    [] u = SiteB -> <<"b", "com">>
    [] u = LocalhostUrl -> <<"localhost">>
    [] u = LoopbackUrl -> <<"127", "0", "0", "1">>
    [] u = DotLocalUrl -> <<"printer", "local">>

StartsWithHttp(u) == u \in {SiteA, SiteB, LocalhostUrl, LoopbackUrl, DotLocalUrl}

\* variant: the .local suffix is not recognised
isLocalhost_noDotLocal(u) ==
  LET h == HostLabels(u) IN
    \/ h = <<"localhost">>
    \/ h = <<"127", "0", "0", "1">>

\* hostname === 'localhost' || hostname === '127.0.0.1' || hostname.endsWith('.local')
isLocalhost(u) ==
  LET h == HostLabels(u) IN
    \/ h = <<"localhost">>
    \/ h = <<"127", "0", "0", "1">>
    \/ (Len(h) >= 2 /\ h[Len(h)] = "local")

\* ------------------------------------------------------------------ values
Undefined == "undefined"
NullRisk == -1          \* riskScore missing from an object (null / undefined)

\* chrome.action badge values {text, color}; "check" stands for U+2713
SCANNING == [text |-> "...", color |-> "#666666"]
DANGER == [text |-> "!", color |-> "#FF0000"]
PRIVACY == [text |-> "i", color |-> "#0000FF"]
SAFE == [text |-> "check", color |-> "#00FF00"]
LOCALHOST_SAFE == [text |-> "check", color |-> "#10b981"]
Unset == [text |-> "", color |-> ""]

\* ScanResults the remote full pipeline may return (opaque collaborator)
\* (the ScanResult of the full pipeline carries no hasPrivacyPolicy field)
R_safe == [riskScore |-> 10, hasPrivacyPolicy |-> Undefined, voiceAlert |-> "", scanId |-> "s1"]
R_edge == [riskScore |-> 70, hasPrivacyPolicy |-> Undefined, voiceAlert |-> "alert.mp3", scanId |-> "s2"]
R_high == [riskScore |-> 85, hasPrivacyPolicy |-> Undefined, voiceAlert |-> "alert.mp3", scanId |-> "s3"]

Results == {R_safe, R_edge, R_high}
ScanIds == {r.scanId : r \in Results}

\* content script: hasPrivacyPolicyLinks() over the page's DOM; page A links a
\* privacy policy, the other pages do not
hasPrivacyPolicyLinks(u) == IF u = SiteA THEN "true" ELSE "false"

\* ScanResult.riskScore is an integer in [0, 100]
RiskScores == 0..100
HasPrivacyValues == {"true", "false", Undefined}

\* Quick-scan (/api/scout/scan) results: riskScore, NullRisk when the field is missing
QuickRisks == {NullRisk, 50, 85}

\* URLs of hovered links and pasted texts
LinkUrls == {"https://x.com/", "https://y.com/"}
Texts == {"urgent: verify your account", "hello"}

\* clipboard texts of paste events ("": no text on the clipboard), of 0, 9,
\* 10, 11 and 27 characters
PastedTexts == {"", "urgent!!!", "click here", "verify now!", "urgent: verify your account"}

\* URLs handed to performQuickLinkCheck: scheme, host and path, each with
\* what it is (its top-level domain, its number of labels, whether it is an
\* IPv4 literal, whether it holds urgency vocabulary); UrlOf is the string
QuickSchemes == {"http://", "https://", "HTTP://"}

QuickHosts ==
  {[name |-> "example.com", tld |-> "com", labels |-> 2, ipv4 |-> FALSE, urgent |-> FALSE],
   [name |-> "www.gap.com", tld |-> "com", labels |-> 3, ipv4 |-> FALSE, urgent |-> FALSE],
   [name |-> "prizes.tk", tld |-> "tk", labels |-> 2, ipv4 |-> FALSE, urgent |-> FALSE],
   [name |-> "EVIL.XYZ", tld |-> "xyz", labels |-> 2, ipv4 |-> FALSE, urgent |-> FALSE],
   [name |-> "192.168.1.10", tld |-> "", labels |-> 4, ipv4 |-> TRUE, urgent |-> FALSE],
   [name |-> "1.2.3.4.example.com", tld |-> "com", labels |-> 6, ipv4 |-> FALSE, urgent |-> FALSE],
   [name |-> "login.secure.pay.example.com", tld |-> "com", labels |-> 5, ipv4 |-> FALSE,
    urgent |-> FALSE],
   [name |-> "account-update.com", tld |-> "com", labels |-> 2, ipv4 |-> FALSE, urgent |-> TRUE]}

QuickPaths ==
  {[text |-> "/", urgent |-> FALSE],
   [text |-> "/Verify", urgent |-> TRUE],
   [text |-> "/docs/page.work", urgent |-> FALSE]}

QuickInputs == [scheme : QuickSchemes, host : QuickHosts, path : QuickPaths]

UrlOf(i) == i.scheme \o i.host.name \o i.path.text

\* href attributes of the links a page shows
Hrefs ==
  {"https://x.com/", "/account", "#top",
   "http://localhost:3000/admin", "http://127.0.0.1:8000/", "http://NAS.local/files",
   "http://free-prizes.tk/"}

\* ------------------------------------------------------------------ strings
\* JavaScript string primitives used on URLs, over TLA+ strings.
UpperCase == "ABCDEFGHIJKLMNOPQRSTUVWXYZ"
LowerCase == "abcdefghijklmnopqrstuvwxyz"

CharAt(s, i) == SubSeq(s, i, i)

LowerChar(c) ==
  IF \E i \in 1..Len(UpperCase) : CharAt(UpperCase, i) = c
  THEN CharAt(LowerCase, CHOOSE i \in 1..Len(UpperCase) : CharAt(UpperCase, i) = c)
  ELSE c

RECURSIVE toLowerCase(_)
toLowerCase(s) ==
  IF s = "" THEN "" ELSE LowerChar(CharAt(s, 1)) \o toLowerCase(SubSeq(s, 2, Len(s)))

\* s.startsWith(lit, i - 1)
StartsWithAt(s, i, lit) ==
  i >= 1 /\ i + Len(lit) - 1 <= Len(s) /\ SubSeq(s, i, i + Len(lit) - 1) = lit

startsWith(s, lit) == StartsWithAt(s, 1, lit)

endsWith(s, lit) == Len(lit) <= Len(s) /\ StartsWithAt(s, Len(s) - Len(lit) + 1, lit)

includes(s, lit) == \E i \in 1..(Len(s) + 1) : StartsWithAt(s, i, lit)

\* s.split(sep).length for a one-character separator
SplitLength(s, sep) == Cardinality({i \in 1..Len(s) : CharAt(s, i) = sep}) + 1

\* \d{n} at position i
DigitsAt(s, i, n) ==
  i + n - 1 <= Len(s) /\ \A k \in i..(i + n - 1) : includes("0123456789", CharAt(s, k))

\* \d{1,3}\.\d{1,3}\.\d{1,3}\.\d{1,3} at position i
DottedQuadAt(s, i) ==
  \E n1, n2, n3, n4 \in 1..3 :
    /\ DigitsAt(s, i, n1) /\ StartsWithAt(s, i + n1, ".")
    /\ DigitsAt(s, i + n1 + 1, n2) /\ StartsWithAt(s, i + n1 + 1 + n2, ".")
    /\ DigitsAt(s, i + n1 + n2 + 2, n3) /\ StartsWithAt(s, i + n1 + n2 + 2 + n3, ".")
    /\ DigitsAt(s, i + n1 + n2 + n3 + 3, n4)

\* /https?:\/\/\d{1,3}\.\d{1,3}\.\d{1,3}\.\d{1,3}/.test(url)
ipPattern(url) ==
  \E i \in 1..Len(url) :
    \E scheme \in {"http://", "https://"} :
      StartsWithAt(url, i, scheme) /\ DottedQuadAt(url, i + Len(scheme))

\* new URL(href) of an http(s) href without credentials: the scheme is
\* case-insensitive, the host runs up to the first of / : ? # and is
\* lower-cased; any other string here is a relative reference, which
\* new URL(href) rejects (TypeError)
SchemeLength(href) ==
  IF startsWith(toLowerCase(href), "http://") THEN Len("http://")
  ELSE IF startsWith(toLowerCase(href), "https://") THEN Len("https://")
  ELSE 0

IsAbsolute(href) == SchemeLength(href) > 0

\* the last position before the first of the characters stops after the scheme
LastBefore(href, stops) ==
  LET from == SchemeLength(href) + 1
      at == {i \in from..Len(href) : includes(stops, CharAt(href, i))}
  IN IF at = {} THEN Len(href)
     ELSE (CHOOSE i \in at : \A j \in at : i <= j) - 1

HostEnd(href) == LastBefore(href, "/:?#")

\* end of scheme://host:port
OriginEnd(href) == LastBefore(href, "/?#")

\* new URL(href).hostname, for IsAbsolute(href)
hostname(href) == toLowerCase(SubSeq(href, SchemeLength(href) + 1, HostEnd(href)))

\* new URL(href, base).href for an absolute href or a path-absolute reference
Resolve(href, base) ==
  IF IsAbsolute(href) THEN href
  ELSE SubSeq(base, 1, OriginEnd(base)) \o href

\* ------------------------------------------------------------------ link heuristic filter
suspiciousTLDs ==
  <<".tk", ".ml", ".ga", ".cf", ".gq", ".xyz", ".top", ".work", ".click", ".link">>

urgencyKeywords ==
  <<"urgent", "verify", "suspended", "expires", "confirm", "update", "security-alert">>

NotSuspicious == [suspicious |-> FALSE]

\* the first element of list that s includes, as a set (empty: none)
FirstIncluded(s, list) ==
  {list[i] : i \in {i \in 1..Len(list) :
                      includes(s, list[i]) /\ \A j \in 1..(i - 1) : ~includes(s, list[j])}}

\* variant: the rules look at the URL as written, not lower-cased
performQuickLinkCheck_caseSensitive(url) ==
  LET urlLower == url
      tld == FirstIncluded(urlLower, suspiciousTLDs)
      keyword == FirstIncluded(urlLower, urgencyKeywords)
  IN IF tld # {}
     THEN [suspicious |-> TRUE, risk |-> 75,
           reason |-> "Suspicious domain extension", match |-> CHOOSE x \in tld : TRUE]
     ELSE IF keyword # {}
     THEN [suspicious |-> TRUE, risk |-> 60,
           reason |-> "Urgency trigger in URL", match |-> CHOOSE x \in keyword : TRUE]
     ELSE IF ipPattern(url)
     THEN [suspicious |-> TRUE, risk |-> 70,
           reason |-> "Link uses IP address instead of domain"]
     ELSE IF IsAbsolute(url) /\ SplitLength(hostname(url), ".") > 4
     THEN [suspicious |-> TRUE, risk |-> 55,
           reason |-> "Unusual number of subdomains"]
     ELSE NotSuspicious

performQuickLinkCheck(url) ==
  LET urlLower == toLowerCase(url)
      tld == FirstIncluded(urlLower, suspiciousTLDs)
      keyword == FirstIncluded(urlLower, urgencyKeywords)
  IN IF tld # {}
     THEN [suspicious |-> TRUE, risk |-> 75,
           reason |-> "Suspicious domain extension", match |-> CHOOSE x \in tld : TRUE]
     ELSE IF keyword # {}
     THEN [suspicious |-> TRUE, risk |-> 60,
           reason |-> "Urgency trigger in URL", match |-> CHOOSE x \in keyword : TRUE]
     ELSE IF ipPattern(url)
     THEN [suspicious |-> TRUE, risk |-> 70,
           reason |-> "Link uses IP address instead of domain"]
     ELSE IF IsAbsolute(url) /\ SplitLength(hostname(url), ".") > 4
     THEN [suspicious |-> TRUE, risk |-> 55,
           reason |-> "Unusual number of subdomains"]
     ELSE NotSuspicious

\* Date.now() is in milliseconds
LINK_TTL_MS == 5 * 60 * 1000

\* content script: the period of the linkCache.clear() timer
CLEAR_INTERVAL_MS == 5 * 60 * 1000
TickMs == 150000

VARIABLES
  tabUrl,       \* environment: URL each tab currently shows
  tabState,     \* Map tabId -> TabState entry
  badge,        \* chrome.action badge per tab id; badge[NoTab] is the global default
  inflight,     \* remote calls awaiting their response (suspended handlers)
  nextId,       \* number of the next remote call
  navs,         \* navigations so far
  voiceCalls,   \* playHighRiskVoiceAlert invocations per scanId
  writer,       \* per tab: which path wrote the TabState entry last
  latest,       \* per tab: the entry written by the latest dispatched page scan, once it answered
  done,         \* the handler run that finished last, and what it sent back
  linkSafetyCache, \* Map url -> {result, timestamp}
  now,          \* Date.now()
  linkCache,    \* per tab: the content script's Map href -> response
  clearDue,     \* per tab: when the content script's linkCache.clear() timer is due next
  obtained,     \* per tab: when each response held in linkCache was made by checkLinkSafety
  bridge,       \* the offscreen document and the playHighRiskVoiceAlert calls under way
  script,       \* per tab: the page's document and its content script
  dashboard     \* the web dashboard: displayed history, dismissed ids, fetches under way

tabVars == <<tabState, badge, voiceCalls, writer, latest>>
linkVars == <<linkSafetyCache, now>>
vars == <<tabUrl, tabState, badge, inflight, nextId, navs, voiceCalls, writer, latest, done,
          linkSafetyCache, now, linkCache, clearDue, obtained, bridge, script, dashboard>>

\* ------------------------------------------------------------------ helpers
MapSet(m, k, v) == [x \in (DOMAIN m) \cup {k} |-> IF x = k THEN v ELSE m[x]]

MapDelete(m, ks) == [x \in (DOMAIN m) \ ks |-> m[x]]

EmptyMap == [x \in {} |-> 0]

EntryOf(m, t) == IF t \in DOMAIN m THEN {m[t]} ELSE {}

\* the badge the browser shows on a tab: its own, else the global default
ShownBadgeIn(bg, t) == IF bg[t] = Unset THEN bg[NoTab] ELSE bg[t]

ShownBadge(t) == ShownBadgeIn(badge, t)

\* variant: the danger threshold is inclusive
setBadgeFromResult_ge70(result, tabId) ==
  LET risk == IF result.riskScore # NullRisk THEN result.riskScore ELSE 0
      hasPrivacy == result.hasPrivacyPolicy = "true"
      b == IF risk >= 70 THEN DANGER
           ELSE IF hasPrivacy THEN PRIVACY
           ELSE SAFE
  IN [badge EXCEPT ![tabId] = b]

\* variant: the tab id is dropped, so the global badge is written
setBadgeFromResult_global(result, tabId) ==
  LET risk == IF result.riskScore # NullRisk THEN result.riskScore ELSE 0
      hasPrivacy == result.hasPrivacyPolicy = "true"
      b == IF risk > 70 THEN DANGER
           ELSE IF hasPrivacy THEN PRIVACY
           ELSE SAFE
  IN [badge EXCEPT ![NoTab] = b]

setBadgeFromResult(result, tabId) ==
  LET risk == IF result.riskScore # NullRisk THEN result.riskScore ELSE 0
      hasPrivacy == result.hasPrivacyPolicy = "true"
      b == IF risk > 70 THEN DANGER
           ELSE IF hasPrivacy THEN PRIVACY
           ELSE SAFE
  IN [badge EXCEPT ![tabId] = b]

\* variant: dispatching a scan leaves the badge as it is
setBadgeScanning_none(tabId) == badge

setBadgeScanning(tabId) == [badge EXCEPT ![tabId] = SCANNING]

\* variant: the voice alert uses the badge's danger threshold
PlaysVoice_gt70(result) ==
  /\ (IF result.riskScore # NullRisk THEN result.riskScore ELSE 0) > 70
  /\ result.voiceAlert # ""

\* (result.riskScore ?? 0) >= 70 && (result.voiceAlert || result.voice_alert)
PlaysVoice(result) ==
  /\ (IF result.riskScore # NullRisk THEN result.riskScore ELSE 0) >= 70
  /\ result.voiceAlert # ""

BACKEND_URL == "http://localhost:8000"

\* playHighRiskVoiceAlert: the source handed to the offscreen document
audioSrc(voiceAlert) ==
  IF startsWith(voiceAlert, "audio/mpeg;base64,") THEN voiceAlert
  ELSE BACKEND_URL \o "/audio/" \o voiceAlert

\* the TabState entries handleScoutSignal and the rescanner write
LocalhostEntry(signal) ==
  [url |-> signal.url, riskScore |-> 0, hasPrivacyPolicy |-> "false",
   skippedReason |-> "localhost"]

\* variant: hasPrivacyPolicy is taken from the result instead of the signal
ScoutEntry_hpFromResult(r, result) ==
  [hasPrivacyPolicy |-> result.hasPrivacyPolicy, riskScore |-> result.riskScore,
   url |-> r.url, fullResult |-> result]

ScoutEntry(r, result) ==
  [hasPrivacyPolicy |-> r.hp, riskScore |-> result.riskScore, url |-> r.url,
   fullResult |-> result]

\* variant: the failure is merged into the previous entry, keeping its payload
FailedEntry_merge(r) ==
  IF r.tab \in DOMAIN tabState /\ "fullResult" \in DOMAIN tabState[r.tab]
  THEN [hasPrivacyPolicy |-> r.hp, riskScore |-> 0, url |-> r.url,
        fullResult |-> tabState[r.tab].fullResult]
  ELSE [hasPrivacyPolicy |-> r.hp, riskScore |-> 0, url |-> r.url]

FailedEntry(r) == [hasPrivacyPolicy |-> r.hp, riskScore |-> 0, url |-> r.url]

\* variant: the rescan merges its result into the entry, keeping skippedReason
RescanEntry_merge(r, result) ==
  IF r.tab \in DOMAIN tabState /\ "skippedReason" \in DOMAIN tabState[r.tab]
  THEN [hasPrivacyPolicy |-> result.hasPrivacyPolicy, riskScore |-> result.riskScore,
        url |-> r.url, fullResult |-> result,
        skippedReason |-> tabState[r.tab].skippedReason]
  ELSE [hasPrivacyPolicy |-> result.hasPrivacyPolicy, riskScore |-> result.riskScore,
        url |-> r.url, fullResult |-> result]

RescanEntry(r, result) ==
  [hasPrivacyPolicy |-> result.hasPrivacyPolicy, riskScore |-> result.riskScore,
   url |-> r.url, fullResult |-> result]

\* variant: the catch block leaves the badge as it is
FailOpenBadge_untouched(r) == badge

\* catch block: setBadgeFromResult({ riskScore: 0, hasPrivacyPolicy: signal.hasPrivacyPolicy }, tabId)
FailOpenBadge(r) == setBadgeFromResult([riskScore |-> 0, hasPrivacyPolicy |-> r.hp], r.tab)

\* variant: the badge is computed from the result's own hasPrivacyPolicy
ResultBadge_hpFromResult(r, result) ==
  setBadgeFromResult(
    [riskScore |-> result.riskScore, hasPrivacyPolicy |-> result.hasPrivacyPolicy], r.tab)

\* try block: setBadgeFromResult({ riskScore: result.riskScore, hasPrivacyPolicy: signal.hasPrivacyPolicy }, tabId)
ResultBadge(r, result) ==
  setBadgeFromResult([riskScore |-> result.riskScore, hasPrivacyPolicy |-> r.hp], r.tab)

\* ------------------------------------------------------------------ dashboard (web app)
\* the scans the backend can hold and broadcast
Alerts ==
  {[scanId |-> "s1", riskScore |-> 10, voiceAlert |-> "", timestamp |-> 1],
   [scanId |-> "s2", riskScore |-> 70, voiceAlert |-> "alert.mp3", timestamp |-> 2],
   [scanId |-> "s3", riskScore |-> 85, voiceAlert |-> "", timestamp |-> 3]}

\* .slice(0, 100)
HISTORY_CAP == 100

\* sortAlertHistory's comparator is negative: a goes before b
SortsBefore(a, b) ==
  IF a.riskScore >= 70 /\ b.riskScore < 70 THEN TRUE
  ELSE IF a.riskScore < 70 /\ b.riskScore >= 70 THEN FALSE
  ELSE IF a.voiceAlert # "" /\ b.voiceAlert = "" THEN TRUE
  ELSE IF a.voiceAlert = "" /\ b.voiceAlert # "" THEN FALSE
  ELSE b.timestamp - a.timestamp < 0

\* Array.prototype.sort is stable: a row goes after the rows it does not sort before
RECURSIVE InsertSorted(_, _)
InsertSorted(a, rows) ==
  IF rows = <<>> THEN <<a>>
  ELSE IF SortsBefore(a, Head(rows)) THEN <<a>> \o rows
  ELSE <<Head(rows)>> \o InsertSorted(a, Tail(rows))

RECURSIVE sortAlertHistory(_)
sortAlertHistory(rows) ==
  IF Len(rows) <= 1 THEN rows
  ELSE InsertSorted(rows[Len(rows)], sortAlertHistory(SubSeq(rows, 1, Len(rows) - 1)))

\* rows.filter(keep)
RECURSIVE FilterRows(_, _)
FilterRows(rows, keep) ==
  IF rows = <<>> THEN <<>>
  ELSE (IF Head(rows) \in keep THEN <<Head(rows)>> ELSE <<>>) \o FilterRows(Tail(rows), keep)

\* the list GET /history answers with: the stored scans, in some order
RECURSIVE ListOf(_)
ListOf(stored) ==
  IF stored = {} THEN <<>>
  ELSE LET a == CHOOSE x \in stored : TRUE IN <<a>> \o ListOf(stored \ {a})

\* fetchHistory, as created by a render: it closes over that render's dismissedIds
HistoryFetch(dismissedIds) == [dismissedIds |-> dismissedIds]

\* Dashboard mounts: useState defaults (sessionStorage holds no dismissed
\* ids) and the first effect's fetchHistory()
Mounted ==
  [history |-> <<>>, loading |-> TRUE, dismissedIds |-> {}, toast |-> "none",
   fetches |-> {HistoryFetch({})}, stored |-> {}]

\* fetchHistory after its await: GET /history answered with the stored scans
FetchResolved(f) ==
  /\ f \in dashboard.fetches
  /\ dashboard' =
       [dashboard EXCEPT
          !.fetches = @ \ {f},
          !.history = sortAlertHistory(FilterRows(ListOf(dashboard.stored),
                        {p \in Alerts : p.scanId \notin f.dismissedIds})),
          !.loading = FALSE]
  /\ UNCHANGED <<tabUrl, tabVars, inflight, nextId, navs, done, linkVars, linkCache, clearDue,
                 obtained, bridge, script>>

\* fetchHistory after its await: the request failed, timed out or !res.ok
FetchRejected(f) ==
  /\ f \in dashboard.fetches
  /\ dashboard' =
       [dashboard EXCEPT
          !.fetches = @ \ {f}, !.history = <<>>, !.toast = "error", !.loading = FALSE]
  /\ UNCHANGED <<tabUrl, tabVars, inflight, nextId, navs, done, linkVars, linkCache, clearDue,
                 obtained, bridge, script>>

\* the window gains focus: setLoading(true); fetchHistory()
onFocus ==
  /\ dashboard' =
       [dashboard EXCEPT
          !.loading = TRUE, !.fetches = @ \cup {HistoryFetch(dashboard.dismissedIds)}]
  /\ UNCHANGED <<tabUrl, tabVars, inflight, nextId, navs, done, linkVars, linkCache, clearDue,
                 obtained, bridge, script>>

\* the backend stores a scan and broadcasts new_scan (also again, for a scan
\* it holds); useWebSocket hands the payload to the latest render's onNewScan
onNewScan(payload) ==
  /\ dashboard' =
       IF payload.scanId \in dashboard.dismissedIds
       THEN [dashboard EXCEPT !.stored = @ \cup {payload}]
       ELSE LET rows == <<payload>> \o
                        FilterRows(dashboard.history, {p \in Alerts : p.scanId # payload.scanId})
                kept == SubSeq(rows, 1, IF Len(rows) < HISTORY_CAP THEN Len(rows) ELSE HISTORY_CAP)
            IN  [dashboard EXCEPT
                   !.stored = @ \cup {payload},
                   !.history = sortAlertHistory(kept),
                   !.toast = IF payload.riskScore >= 70 THEN "error" ELSE "success"]
  /\ UNCHANGED <<tabUrl, tabVars, inflight, nextId, navs, done, linkVars, linkCache, clearDue,
                 obtained, bridge, script>>

\* the dismiss button of a displayed alert; dismissedIds is a new Set, so
\* fetchHistory is created anew and the effect depending on it calls it
onDismissAlert(alert) ==
  /\ \E i \in 1..Len(dashboard.history) : dashboard.history[i] = alert
  /\ LET next == dashboard.dismissedIds \cup {alert.scanId} IN
       dashboard' =
         [dashboard EXCEPT
            !.dismissedIds = next,
            !.history = FilterRows(@, {p \in Alerts : p.scanId # alert.scanId}),
            !.fetches = @ \cup {HistoryFetch(next)}]
  /\ UNCHANGED <<tabUrl, tabVars, inflight, nextId, navs, done, linkVars, linkCache, clearDue,
                 obtained, bridge, script>>

\* a document that starts to load: document.readyState is 'loading', the
\* content script has not run yet, no SCOUT_SIGNAL was sent for it
NewPage == [readyState |-> "loading", injected |-> FALSE, listening |-> FALSE, signals |-> 0]

Finished(action, responses, response) ==
  [action |-> action, responses |-> responses, response |-> response]

\* a newer page scan of the tab is dispatched: the pending older ones are superseded
Supersede(reqs, t) ==
  {IF r.kind = "signal" /\ r.tab = t THEN [r EXCEPT !.superseded = TRUE] ELSE r : r \in reqs}

Init ==
  /\ tabUrl = [t \in Tabs |-> SiteA]
  /\ tabState = EmptyMap
  /\ badge = [x \in Tabs \cup {NoTab} |-> IF x = NoTab THEN SCANNING ELSE Unset]
  /\ inflight = {}
  /\ nextId = 1
  /\ navs = 0
  /\ voiceCalls = [s \in ScanIds |-> 0]
  /\ writer = [t \in Tabs |-> "none"]
  /\ latest = [t \in Tabs |-> {}]
  /\ done = Finished("load", 0, "none")
  /\ linkSafetyCache = EmptyMap
  /\ now = 0
  /\ linkCache = [t \in Tabs |-> EmptyMap]
  /\ clearDue = [t \in Tabs |-> CLEAR_INTERVAL_MS]
  /\ obtained = [t \in Tabs |-> EmptyMap]
  /\ bridge = [surface |-> "none", pending |-> {}, sent |-> {}]
  /\ script = [t \in Tabs |-> NewPage]
  /\ dashboard = Mounted

\* the page of tab t is unloaded: its content script, with its linkCache and
\* the callbacks of its pending checkLinkSafety messages, is gone
Unload(reqs, t) ==
  {IF r.kind = "hover" /\ r.tab = t THEN [r EXCEPT !.tab = NoTab] ELSE r : r \in reqs}

\* ------------------------------------------------------------------ actions
\* The tab is closed. The background registers no chrome.tabs.onRemoved
\* listener, so nothing of its state changes; the page's content script is gone.
CloseTab(t) ==
  /\ tabUrl[t] # Removed
  /\ tabUrl' = [tabUrl EXCEPT ![t] = Removed]
  /\ linkCache' = [linkCache EXCEPT ![t] = EmptyMap]
  /\ obtained' = [obtained EXCEPT ![t] = EmptyMap]
  /\ script' = [script EXCEPT ![t] = NewPage]
  /\ inflight' = Unload(inflight, t)
  /\ UNCHANGED <<tabVars, nextId, navs, done, linkVars, bridge, clearDue, dashboard>>

\* The tab navigates to another page.
Navigate(t, u) ==
  /\ tabUrl[t] # Removed
  /\ u # tabUrl[t]
  /\ navs < MaxNavs
  /\ navs' = navs + 1
  /\ tabUrl' = [tabUrl EXCEPT ![t] = u]
  /\ linkCache' = [linkCache EXCEPT ![t] = EmptyMap]
  /\ obtained' = [obtained EXCEPT ![t] = EmptyMap]
  /\ clearDue' = [clearDue EXCEPT ![t] = now + CLEAR_INTERVAL_MS]
  /\ script' = [script EXCEPT ![t] = NewPage]
  /\ inflight' = Unload(inflight, t)
  /\ UNCHANGED <<tabVars, nextId, done, linkVars, bridge, dashboard>>

\* variant: a URL that does not parse is rejected instead of scanned
handleScoutSignal_failClosed(signal, tabId) ==
  IF ~ParsesAsUrl(signal.url)
  THEN /\ done' = Finished("SCOUT_SIGNAL", 1, "error")
       /\ UNCHANGED <<tabUrl, tabVars, inflight, nextId, navs, linkVars, linkCache, clearDue, obtained, bridge, dashboard>>
  ELSE IF isLocalhost(signal.url)
  THEN /\ badge' = [badge EXCEPT ![tabId] = LOCALHOST_SAFE]
       /\ tabState' = MapSet(tabState, tabId, LocalhostEntry(signal))
       /\ writer' = [writer EXCEPT ![tabId] = "localhost"]
       /\ done' = Finished("SCOUT_SIGNAL", 0, "none")
       /\ UNCHANGED <<tabUrl, inflight, nextId, navs, voiceCalls, latest, linkVars, linkCache, clearDue, obtained, bridge, dashboard>>
  ELSE /\ nextId <= MaxRequests
       /\ badge' = setBadgeScanning(tabId)
       /\ inflight' = Supersede(inflight, tabId) \cup
            {[id |-> nextId, kind |-> "signal", tab |-> tabId, url |-> signal.url,
              hp |-> signal.hasPrivacyPolicy, superseded |-> FALSE]}
       /\ nextId' = nextId + 1
       /\ latest' = [latest EXCEPT ![tabId] = {}]
       /\ UNCHANGED <<tabUrl, tabState, navs, voiceCalls, writer, done, linkVars, linkCache, clearDue, obtained, bridge, dashboard>>

\* handleScoutSignal up to its first suspension point (or its early return).
handleScoutSignal(signal, tabId) ==
  IF ParsesAsUrl(signal.url) /\ isLocalhost(signal.url)
  THEN /\ badge' = [badge EXCEPT ![tabId] = LOCALHOST_SAFE]
       /\ tabState' = MapSet(tabState, tabId, LocalhostEntry(signal))
       /\ writer' = [writer EXCEPT ![tabId] = "localhost"]
       /\ done' = Finished("SCOUT_SIGNAL", 0, "none")
       /\ UNCHANGED <<tabUrl, inflight, nextId, navs, voiceCalls, latest, linkVars, linkCache, clearDue, obtained, bridge, dashboard>>
  ELSE /\ nextId <= MaxRequests
       /\ badge' = setBadgeScanning(tabId)
       /\ inflight' = Supersede(inflight, tabId) \cup
            {[id |-> nextId, kind |-> "signal", tab |-> tabId, url |-> signal.url,
              hp |-> signal.hasPrivacyPolicy, superseded |-> FALSE]}
       /\ nextId' = nextId + 1
       /\ latest' = [latest EXCEPT ![tabId] = {}]
       /\ UNCHANGED <<tabUrl, tabState, navs, voiceCalls, writer, done, linkVars, linkCache, clearDue, obtained, bridge, dashboard>>

\* onMessage listener, action 'SCOUT_SIGNAL' sent by the tab's content script
SCOUT_SIGNAL(t) ==
  /\ tabUrl[t] # Removed
  /\ UNCHANGED script
  /\ handleScoutSignal(
       [url |-> tabUrl[t], hasPrivacyPolicy |-> hasPrivacyPolicyLinks(tabUrl[t])], t)

\* onMessage listener, action 'scanPage' sent by the legacy content script of
\* tab t: url is request.signals?.url || sender.tab.url (Undefined: no
\* signals.url in the message)
scanPage(t, url) ==
  /\ tabUrl[t] # Removed
  /\ UNCHANGED script
  /\ handleScoutSignal(
       [url |-> IF url = Undefined THEN tabUrl[t] ELSE url, hasPrivacyPolicy |-> "false"], t)

\* playHighRiskVoiceAlert(voiceAlert) up to its suspension at
\* await chrome.offscreen.createDocument(...); id names the invocation (the
\* remote call whose result triggered it). The browser starts to load the
\* document when the extension has none, and will reject the call otherwise.
playHighRiskVoiceAlert(id, voiceAlert) ==
  IF voiceAlert = "" THEN bridge
  ELSE [surface |-> IF bridge.surface = "none" THEN "loading" ELSE bridge.surface,
        pending |-> bridge.pending \cup
          {[id |-> id, audioSrc |-> audioSrc(voiceAlert), creates |-> bridge.surface = "none"]},
        sent |-> bridge.sent]

\* variant: the handler awaits the bridge, the response waits for the playback
ScoutScanResolved_awaitVoice(r, result) ==
  /\ r \in inflight /\ r.kind = "signal"
  /\ inflight' = inflight \ {r}
  /\ tabState' = MapSet(tabState, r.tab, ScoutEntry(r, result))
  /\ badge' = ResultBadge(r, result)
  /\ voiceCalls' =
       IF PlaysVoice(result) THEN [voiceCalls EXCEPT ![result.scanId] = @ + 1] ELSE voiceCalls
  /\ bridge' =
       IF PlaysVoice(result) THEN playHighRiskVoiceAlert(r.id, result.voiceAlert) ELSE bridge
  /\ writer' = [writer EXCEPT ![r.tab] = "signal"]
  /\ latest' = IF r.superseded THEN latest ELSE [latest EXCEPT ![r.tab] = {tabState'[r.tab]}]
  /\ done' = IF PlaysVoice(result) THEN done ELSE Finished("SCOUT_SIGNAL", 1, "result")
  /\ UNCHANGED <<tabUrl, nextId, navs, linkVars, linkCache, clearDue, obtained, script, dashboard>>

\* variant: the content script sends the signal for every page (no localhost skip)
sendScoutSignal_noSkip(t, page) ==
  /\ script' = [script EXCEPT ![t] = [page EXCEPT !.signals = @ + 1]]
  /\ handleScoutSignal(
       [url |-> tabUrl[t], hasPrivacyPolicy |-> hasPrivacyPolicyLinks(tabUrl[t])], t)

\* content script: sendScoutSignal() on the page of tab t, with the
\* background's handling of the message it sends; page is the state of the
\* page's document and script when it is called
sendScoutSignal(t, page) ==
  IF ParsesAsUrl(tabUrl[t]) /\ isLocalhost(tabUrl[t])
  THEN /\ script' = [script EXCEPT ![t] = page]
       /\ UNCHANGED <<tabUrl, tabVars, inflight, nextId, navs, done, linkVars, linkCache, clearDue, obtained, bridge, dashboard>>
  ELSE /\ script' = [script EXCEPT ![t] = [page EXCEPT !.signals = @ + 1]]
       /\ handleScoutSignal(
            [url |-> tabUrl[t], hasPrivacyPolicy |-> hasPrivacyPolicyLinks(tabUrl[t])], t)

\* the content script runs in the page of tab t: "Run scan on load"
RunContentScript(t) ==
  /\ tabUrl[t] # Removed
  /\ ~script[t].injected
  /\ IF script[t].readyState = "loading"
     THEN /\ script' = [script EXCEPT ![t].injected = TRUE, ![t].listening = TRUE]
          /\ UNCHANGED <<tabUrl, tabVars, inflight, nextId, navs, done, linkVars, linkCache, clearDue, obtained,
                         bridge, dashboard>>
     ELSE sendScoutSignal(t, [script[t] EXCEPT !.injected = TRUE])

\* the document of tab t's page has been parsed: DOMContentLoaded fires, once
DOMContentLoaded(t) ==
  /\ tabUrl[t] # Removed
  /\ script[t].readyState = "loading"
  /\ IF script[t].listening
     THEN sendScoutSignal(t, [script[t] EXCEPT !.readyState = "interactive"])
     ELSE /\ script' = [script EXCEPT ![t].readyState = "interactive"]
          /\ UNCHANGED <<tabUrl, tabVars, inflight, nextId, navs, done, linkVars, linkCache, clearDue, obtained,
                         bridge, dashboard>>

\* postFullScan resolved: the rest of handleScoutSignal's try block.
ScoutScanResolved(r, result) ==
  /\ r \in inflight /\ r.kind = "signal"
  /\ inflight' = inflight \ {r}
  /\ tabState' = MapSet(tabState, r.tab, ScoutEntry(r, result))
  /\ badge' = ResultBadge(r, result)
  /\ voiceCalls' =
       IF PlaysVoice(result) THEN [voiceCalls EXCEPT ![result.scanId] = @ + 1] ELSE voiceCalls
  /\ bridge' =
       IF PlaysVoice(result) THEN playHighRiskVoiceAlert(r.id, result.voiceAlert) ELSE bridge
  /\ writer' = [writer EXCEPT ![r.tab] = "signal"]
  /\ latest' = IF r.superseded THEN latest ELSE [latest EXCEPT ![r.tab] = {tabState'[r.tab]}]
  /\ done' = Finished("SCOUT_SIGNAL", 1, "result")
  /\ UNCHANGED <<tabUrl, nextId, navs, linkVars, linkCache, clearDue, obtained, script, dashboard>>

\* the playVoice message of invocation p, and whether a listener received it:
\* the offscreen document listens once it has loaded
PlayVoice(p, received) == [id |-> p.id, audioSrc |-> p.audioSrc, received |-> received]

\* createDocument resolved (the document has loaded): the rest of
\* playHighRiskVoiceAlert sends playVoice, which the document's listener plays
CreateDocumentResolved(p) ==
  /\ p \in bridge.pending /\ p.creates
  /\ bridge.surface = "loading"
  /\ bridge' = [surface |-> "ready", pending |-> bridge.pending \ {p},
                sent |-> bridge.sent \cup {PlayVoice(p, TRUE)}]
  /\ UNCHANGED <<tabUrl, tabVars, inflight, nextId, navs, done, linkVars, linkCache, clearDue, obtained, script, dashboard>>

\* createDocument rejected (a document exists or is being loaded): the catch
\* ignores it and the rest of playHighRiskVoiceAlert sends playVoice
CreateDocumentRejected(p) ==
  /\ p \in bridge.pending /\ ~p.creates
  /\ bridge' = [surface |-> bridge.surface, pending |-> bridge.pending \ {p},
                sent |-> bridge.sent \cup {PlayVoice(p, bridge.surface = "ready")}]
  /\ UNCHANGED <<tabUrl, tabVars, inflight, nextId, navs, done, linkVars, linkCache, clearDue, obtained, script, dashboard>>

\* postFullScan rejected: handleScoutSignal's catch block.
ScoutScanRejected(r) ==
  /\ r \in inflight /\ r.kind = "signal"
  /\ inflight' = inflight \ {r}
  /\ badge' = FailOpenBadge(r)
  /\ tabState' = MapSet(tabState, r.tab, FailedEntry(r))
  /\ writer' = [writer EXCEPT ![r.tab] = "signal"]
  /\ latest' = IF r.superseded THEN latest ELSE [latest EXCEPT ![r.tab] = {tabState'[r.tab]}]
  /\ done' = Finished("SCOUT_SIGNAL", 1, "error")
  /\ UNCHANGED <<tabUrl, nextId, navs, voiceCalls, linkVars, linkCache, clearDue, obtained, bridge, script, dashboard>>

\* The rescan setInterval callback up to its suspension at postFullScan; f is
\* the active tab of the last focused window (NoTab: none could be resolved).
RescanTimer(f) ==
  /\ f # NoTab => tabUrl[f] # Removed
  /\ IF f = NoTab \/ ~StartsWithHttp(tabUrl[f]) \/ isLocalhost(tabUrl[f])
     THEN /\ done' = Finished("rescan", 0, "none")
          /\ UNCHANGED <<tabUrl, tabVars, inflight, nextId, navs, linkVars, linkCache, clearDue, obtained, bridge, script, dashboard>>
     ELSE /\ nextId <= MaxRequests
          /\ inflight' = inflight \cup
               {[id |-> nextId, kind |-> "rescan", tab |-> f, url |-> tabUrl[f]]}
          /\ nextId' = nextId + 1
          /\ UNCHANGED <<tabUrl, tabVars, navs, done, linkVars, linkCache, clearDue, obtained, bridge, script, dashboard>>

\* postFullScan resolved inside the rescan callback.
RescanResolved(r, result) ==
  /\ r \in inflight /\ r.kind = "rescan"
  /\ inflight' = inflight \ {r}
  /\ tabState' = MapSet(tabState, r.tab, RescanEntry(r, result))
  /\ badge' = setBadgeFromResult(
       [riskScore |-> result.riskScore, hasPrivacyPolicy |-> result.hasPrivacyPolicy], r.tab)
  /\ writer' = [writer EXCEPT ![r.tab] = "rescan"]
  /\ done' = Finished("rescan", 0, "none")
  /\ UNCHANGED <<tabUrl, nextId, navs, voiceCalls, latest, linkVars, linkCache, clearDue, obtained, bridge, script, dashboard>>

\* variant: the rescan's catch fails open as handleScoutSignal's catch does
RescanRejected_failOpen(r) ==
  /\ r \in inflight /\ r.kind = "rescan"
  /\ inflight' = inflight \ {r}
  /\ badge' = setBadgeFromResult([riskScore |-> 0, hasPrivacyPolicy |-> Undefined], r.tab)
  /\ tabState' = MapSet(tabState, r.tab,
       [hasPrivacyPolicy |-> Undefined, riskScore |-> 0, url |-> r.url])
  /\ writer' = [writer EXCEPT ![r.tab] = "rescan"]
  /\ done' = Finished("rescan", 0, "none")
  /\ UNCHANGED <<tabUrl, nextId, navs, voiceCalls, latest, linkVars, linkCache, clearDue, obtained, bridge, script, dashboard>>

\* postFullScan rejected inside the rescan callback: the catch swallows it.
RescanRejected(r) ==
  /\ r \in inflight /\ r.kind = "rescan"
  /\ inflight' = inflight \ {r}
  /\ done' = Finished("rescan", 0, "none")
  /\ UNCHANGED <<tabUrl, tabVars, nextId, navs, linkVars, linkCache, clearDue, obtained, bridge, script, dashboard>>

\* onMessage listener, action 'getTabState' (the popup's loadCurrentPageStatus)
getTabState(tabId) ==
  /\ done' = Finished("getTabState", 1,
       IF tabId # NoTab /\ tabId \in DOMAIN tabState THEN "TabState" ELSE "null")
  /\ UNCHANGED <<tabUrl, tabVars, inflight, nextId, navs, linkVars, linkCache, clearDue, obtained, bridge, script, dashboard>>

\* variant: the manual scan applies the localhost rule of handleScoutSignal
fullScan_skipLocalhost(url) ==
  IF isLocalhost(url)
  THEN /\ done' = Finished("fullScan", 1, "skipped")
       /\ UNCHANGED <<tabUrl, tabVars, inflight, nextId, navs, linkVars, linkCache, clearDue, obtained, bridge, script, dashboard>>
  ELSE /\ nextId <= MaxRequests
       /\ inflight' = inflight \cup {[id |-> nextId, kind |-> "fullScan", url |-> url]}
       /\ nextId' = nextId + 1
       /\ UNCHANGED <<tabUrl, tabVars, navs, done, linkVars, linkCache, clearDue, obtained, bridge, script, dashboard>>

\* onMessage listener, action 'fullScan' (manual scan from the popup)
fullScan(url) ==
  /\ nextId <= MaxRequests
  /\ inflight' = inflight \cup {[id |-> nextId, kind |-> "fullScan", url |-> url]}
  /\ nextId' = nextId + 1
  /\ UNCHANGED <<tabUrl, tabVars, navs, done, linkVars, linkCache, clearDue, obtained, bridge, script, dashboard>>

\* postFullScan(...).then(sendResponse)
FullScanResolved(r, result) ==
  /\ r \in inflight /\ r.kind = "fullScan"
  /\ inflight' = inflight \ {r}
  /\ done' = Finished("fullScan", 1, "result")
  /\ UNCHANGED <<tabUrl, tabVars, nextId, navs, linkVars, linkCache, clearDue, obtained, bridge, script, dashboard>>

\* postFullScan(...).catch(err => sendResponse({error}))
FullScanRejected(r) ==
  /\ r \in inflight /\ r.kind = "fullScan"
  /\ inflight' = inflight \ {r}
  /\ done' = Finished("fullScan", 1, "error")
  /\ UNCHANGED <<tabUrl, tabVars, nextId, navs, linkVars, linkCache, clearDue, obtained, bridge, script, dashboard>>

\* background worker: the keyword lists handleAnalyzeText filters
PHISHING_KEYWORDS ==
  <<"urgent", "immediate", "action required", "verify", "confirm", "suspended", "locked",
    "expires", "limited time", "act now", "click here", "update required", "security alert",
    "unusual activity">>

SCAM_KEYWORDS ==
  <<"claim prize", "you won", "congratulations", "inheritance", "inherited", "tech support",
    "microsoft support", "apple support", "refund", "wire transfer", "send money", "bitcoin",
    "crypto", "investment opportunity", "act now or lose", "limited offer", "free gift",
    "claim now">>

MALWARE_KEYWORDS ==
  <<"download now", "install update", ".exe", "run this file", "enable macros",
    "click to install", "security update required", "flash player update">>

\* content script: the keyword lists of the page's signal extractor
content_PHISHING_KEYWORDS ==
  <<"urgent", "action required", "suspended", "immediate", "verify", "confirm",
    "expires", "limited time", "act now", "click here", "update required",
    "security alert", "unusual activity", "re-confirm">>

content_SCAM_KEYWORDS ==
  <<"claim prize", "you won", "congratulations", "inheritance", "inherited",
    "tech support", "microsoft support", "apple support", "refund", "wire transfer",
    "send money", "bitcoin", "crypto", "investment opportunity", "act now or lose",
    "limited offer", "free gift", "claim now", "urgent reply", "verify your account">>

content_MALWARE_KEYWORDS ==
  <<"download now", "install update", ".exe", "run this file", "enable macros",
    "click to install", "security update required", "flash player update">>

\* list.filter((kw) => text.includes(kw))
RECURSIVE filterIncluded(_, _)
filterIncluded(list, text) ==
  IF list = <<>> THEN <<>>
  ELSE (IF includes(text, Head(list)) THEN <<Head(list)>> ELSE <<>>)
       \o filterIncluded(Tail(list), text)

\* content script: getDetectedKeywords over the visible text
getDetectedKeywords(innerText) ==
  LET text == toLowerCase(innerText)
      phishing == filterIncluded(content_PHISHING_KEYWORDS, text)
      scam == filterIncluded(content_SCAM_KEYWORDS, text)
      malware == filterIncluded(content_MALWARE_KEYWORDS, text)
  IN  [phishing |-> phishing, scam |-> scam, malware |-> malware,
       all |-> phishing \o scam \o malware]

\* /privacy|terms|t&c|terms and conditions/i.test(text)
privacyPattern(text) ==
  LET lower == toLowerCase(text)
  IN  \/ includes(lower, "privacy") \/ includes(lower, "terms")
      \/ includes(lower, "t&c") \/ includes(lower, "terms and conditions")

\* the body handleAnalyzeText posts to the quick scan
analyzeTextBody(text) ==
  LET textLower == toLowerCase(text)
      detectedKeywords == filterIncluded(PHISHING_KEYWORDS, textLower)
      detectedScam == filterIncluded(SCAM_KEYWORDS, textLower)
      detectedMalware == filterIncluded(MALWARE_KEYWORDS, textLower)
  IN  [url |-> "", isLogin |-> FALSE, hasPrivacyPolicy |-> privacyPattern(text),
       detectedKeywords |-> detectedKeywords \o detectedScam \o detectedMalware,
       detectedScam |-> detectedScam, detectedMalware |-> detectedMalware]

\* the bodies of the texts of this model, computed once
AnalyzeTextBodyOf == [x \in Texts \cup PastedTexts |-> analyzeTextBody(x)]

\* what the page's signal extractor matches in the texts of this model,
\* computed once
DetectedKeywordsOf == [x \in Texts \cup PastedTexts |-> getDetectedKeywords(x)]

\* onMessage listener, actions 'analyzeText' / 'pasteAnalysis': handleAnalyzeText
\* up to its suspension at postScoutScan
handleAnalyzeText(text) ==
  /\ nextId <= MaxRequests
  /\ inflight' = inflight \cup {[id |-> nextId, kind |-> "analyzeText", text |-> text,
                                  body |-> AnalyzeTextBodyOf[text]]}
  /\ nextId' = nextId + 1
  /\ UNCHANGED <<tabUrl, tabVars, navs, done, linkVars, linkCache, clearDue, obtained, bridge, script, dashboard>>

\* variant: a text of 10 characters is long enough
Paste_atLeast10(t, text) ==
  /\ tabUrl[t] # Removed
  /\ script[t].injected
  /\ IF Len(text) >= 10
     THEN handleAnalyzeText(text)
     ELSE /\ done' = [action |-> "paste", responses |-> 0, response |-> "none", text |-> text]
          /\ UNCHANGED <<tabUrl, tabVars, inflight, nextId, navs, linkVars, linkCache, clearDue, obtained, bridge,
                         script, dashboard>>

\* content script: the paste listener on the page of tab t, with the
\* background's handling of the analyzeText message it sends
Paste(t, text) ==
  /\ tabUrl[t] # Removed
  /\ script[t].injected
  /\ IF Len(text) > 10
     THEN handleAnalyzeText(text)
     ELSE /\ done' = [action |-> "paste", responses |-> 0, response |-> "none", text |-> text]
          /\ UNCHANGED <<tabUrl, tabVars, inflight, nextId, navs, linkVars, linkCache, clearDue, obtained, bridge,
                         script, dashboard>>

AnalyzeTextResolved(r, risk) ==
  /\ r \in inflight /\ r.kind = "analyzeText"
  /\ inflight' = inflight \ {r}
  /\ done' = Finished("pasteAnalysis", 1, "result")
  /\ UNCHANGED <<tabUrl, tabVars, nextId, navs, linkVars, linkCache, clearDue, obtained, bridge, script, dashboard>>

AnalyzeTextRejected(r) ==
  /\ r \in inflight /\ r.kind = "analyzeText"
  /\ inflight' = inflight \ {r}
  /\ done' = Finished("pasteAnalysis", 1, "error")
  /\ UNCHANGED <<tabUrl, tabVars, nextId, navs, linkVars, linkCache, clearDue, obtained, bridge, script, dashboard>>

\* the response checkLinkSafety builds from a quick-scan result
LinkResponse(risk) ==
  LET riskScore == IF risk = NullRisk THEN 0 ELSE risk
      status == IF riskScore > 70 THEN "dangerous"
                ELSE IF riskScore >= 40 THEN "suspicious"
                ELSE "safe"
  IN [riskScore |-> riskScore, status |-> status,
      reason |-> IF status = "safe" THEN "Domain appears safe"
                 ELSE "Suspicious indicators detected"]

LinkReply(url, value) ==
  [action |-> "checkLinkSafety", responses |-> 1, response |-> "LinkResult",
   url |-> url, value |-> value]

\* variant: a hit returns the stored result as it is
CachedReply_bare(url) == linkSafetyCache[url].result

\* checkLinkSafety's reply on a cache hit: { ...cached.result, cached: true }
CachedReply(url) ==
  [riskScore |-> linkSafetyCache[url].result.riskScore,
   status |-> linkSafetyCache[url].result.status,
   reason |-> linkSafetyCache[url].result.reason,
   cached |-> TRUE]

\* variant: an entry is a hit whatever its age, eviction is left to the sweep
CacheHit_anyAge(url) == url \in DOMAIN linkSafetyCache

\* variant: the freshness comparison is inverted
CacheHit_stale(url) ==
  url \in DOMAIN linkSafetyCache /\ now - linkSafetyCache[url].timestamp > LINK_TTL_MS

CacheHit(url) ==
  url \in DOMAIN linkSafetyCache /\ now - linkSafetyCache[url].timestamp < LINK_TTL_MS

UnknownReply == [riskScore |-> 0, status |-> "unknown", reason |-> "Unable to check link"]


\* onMessage listener, action 'checkLinkSafety': checkLinkSafety(url) up to its
\* return from the cache or its suspension at postScoutScan
checkLinkSafety(url) ==
  IF CacheHit(url)
  THEN /\ done' = LinkReply(url, CachedReply(url))
       /\ UNCHANGED <<tabUrl, tabVars, inflight, nextId, navs, linkVars, linkCache, clearDue, obtained, bridge, script, dashboard>>
  ELSE /\ nextId <= MaxRequests
       /\ inflight' = inflight \cup {[id |-> nextId, kind |-> "link", url |-> url]}
       /\ nextId' = nextId + 1
       /\ UNCHANGED <<tabUrl, tabVars, navs, done, linkVars, linkCache, clearDue, obtained, bridge, script, dashboard>>

\* postScoutScan resolved inside checkLinkSafety
LinkScanResolved(r, risk) ==
  /\ r \in inflight /\ r.kind = "link"
  /\ inflight' = inflight \ {r}
  /\ linkSafetyCache' = MapSet(linkSafetyCache, r.url,
       [result |-> LinkResponse(risk), timestamp |-> now])
  /\ done' = LinkReply(r.url, LinkResponse(risk))
  /\ UNCHANGED <<tabUrl, tabVars, nextId, navs, now, linkCache, clearDue, obtained, bridge, script, dashboard>>

\* postScoutScan rejected inside checkLinkSafety: its catch returns "unknown"
LinkScanRejected(r) ==
  /\ r \in inflight /\ r.kind = "link"
  /\ inflight' = inflight \ {r}
  /\ done' = LinkReply(r.url, UnknownReply)
  /\ UNCHANGED <<tabUrl, tabVars, nextId, navs, linkVars, linkCache, clearDue, obtained, bridge, script, dashboard>>

\* variant: the sweep empties the cache, as the content script's timer does
SweepLinkCache_clearAll ==
  /\ linkSafetyCache' = EmptyMap
  /\ UNCHANGED <<tabUrl, tabVars, inflight, nextId, navs, done, now, linkCache, clearDue, obtained, bridge, script, dashboard>>

\* The link-cache sweep setInterval callback.
SweepLinkCache ==
  /\ linkSafetyCache' = MapDelete(linkSafetyCache,
       {u \in DOMAIN linkSafetyCache : now - linkSafetyCache[u].timestamp > LINK_TTL_MS})
  /\ UNCHANGED <<tabUrl, tabVars, inflight, nextId, navs, done, now, linkCache, clearDue, obtained, bridge, script, dashboard>>

\* Time passes.
Tick ==
  /\ now < MaxTicks * TickMs
  /\ now' = now + TickMs
  /\ UNCHANGED <<tabUrl, tabVars, inflight, nextId, navs, done, linkSafetyCache, linkCache, clearDue, obtained, bridge, script, dashboard>>

\* ------------------------------------------------------------------ link hover (content script)
\* hostname === 'localhost' || hostname === '127.0.0.1' || hostname.endsWith('.local')
isLocalhostName(h) == h = "localhost" \/ h = "127.0.0.1" \/ endsWith(h, ".local")

\* variant: the href is parsed without the page as base, so a relative link
\* of a localhost page is not recognised
SkipsHover_noBase(href, pageUrl) ==
  \/ startsWith(href, "#") \/ startsWith(href, "javascript:")
  \/ (IsAbsolute(href) /\ isLocalhostName(hostname(href)))

\* the hover handler's skip test and quick check of each link, computed once
SkipsHover(href, pageUrl) ==
  \/ startsWith(href, "#") \/ startsWith(href, "javascript:")
  \/ isLocalhostName(hostname(Resolve(href, pageUrl)))

HoverSkipped == [href \in Hrefs, pageUrl \in TabUrls |-> SkipsHover(href, pageUrl)]

QuickCheckOf == [href \in Hrefs |-> performQuickLinkCheck(href)]

\* showLinkTooltip(link, result): the tooltip built from result.risk and result.reason
showLinkTooltip(result) ==
  LET risk == IF "risk" \in DOMAIN result THEN result.risk ELSE 0
  IN [riskClass |-> IF risk > 70 THEN "danger" ELSE IF risk >= 40 THEN "warning" ELSE "safe",
      risk |-> risk,
      reason |-> result.reason]

\* a finished hover check: the lookups it consulted, in order, and the result
\* it ended with (the one handed to showLinkTooltip while the link is hovered)
HoverDone(consulted, result) ==
  [action |-> "hover", responses |-> 0, response |-> "none",
   consulted |-> consulted, result |-> result]

\* handleLinkHover on a link of tab t's page, with its debounce timer's
\* callback (a hover the mouse leaves before the timer fires changes nothing),
\* up to the tooltip or the suspension of checkLinkSafety at postScoutScan
handleLinkHover(t, href) ==
  /\ tabUrl[t] # Removed
  /\ IF HoverSkipped[href, tabUrl[t]]
     THEN /\ done' = HoverDone(<<>>, [reason |-> "skipped"])
          /\ UNCHANGED <<tabUrl, tabVars, inflight, nextId, navs, linkVars, linkCache, clearDue, obtained, bridge, script, dashboard>>
     ELSE LET quickCheck == QuickCheckOf[href] IN
       IF quickCheck.suspicious
       THEN /\ done' = HoverDone(<<"performQuickLinkCheck">>,
                                 [risk |-> quickCheck.risk,
                                  reason |-> "Security Tip: " \o quickCheck.reason])
            /\ UNCHANGED <<tabUrl, tabVars, inflight, nextId, navs, linkVars, linkCache, clearDue, obtained, bridge, script, dashboard>>
       ELSE IF href \in DOMAIN linkCache[t]
       THEN /\ done' = HoverDone(<<"performQuickLinkCheck", "linkCache">>, linkCache[t][href])
            /\ UNCHANGED <<tabUrl, tabVars, inflight, nextId, navs, linkVars, linkCache, clearDue, obtained, bridge, script, dashboard>>
       ELSE IF CacheHit(href)
       THEN /\ linkCache' = [linkCache EXCEPT ![t] = MapSet(@, href, CachedReply(href))]
            /\ obtained' = [obtained EXCEPT ![t] = MapSet(@, href, linkSafetyCache[href].timestamp)]
            /\ UNCHANGED clearDue
            /\ done' = HoverDone(<<"performQuickLinkCheck", "linkCache", "linkSafetyCache">>,
                                 CachedReply(href))
            /\ UNCHANGED <<tabUrl, tabVars, inflight, nextId, navs, linkVars, bridge, script, dashboard>>
       ELSE /\ nextId <= MaxRequests
            /\ inflight' = inflight \cup {[id |-> nextId, kind |-> "hover", tab |-> t, url |-> href]}
            /\ nextId' = nextId + 1
            /\ UNCHANGED <<tabUrl, tabVars, navs, done, linkVars, linkCache, clearDue, obtained, bridge, script, dashboard>>

AllConsulted == <<"performQuickLinkCheck", "linkCache", "linkSafetyCache", "postScoutScan">>

\* postScoutScan resolved inside checkLinkSafety; its reply runs the hover's
\* sendMessage callback when the page is still there
HoverScanResolved(r, risk) ==
  /\ r \in inflight /\ r.kind = "hover"
  /\ inflight' = inflight \ {r}
  /\ linkSafetyCache' = MapSet(linkSafetyCache, r.url,
       [result |-> LinkResponse(risk), timestamp |-> now])
  /\ IF r.tab = NoTab
     THEN /\ done' = LinkReply(r.url, LinkResponse(risk))
          /\ UNCHANGED <<linkCache, obtained>>
     ELSE /\ linkCache' = [linkCache EXCEPT ![r.tab] = MapSet(@, r.url, LinkResponse(risk))]
          /\ obtained' = [obtained EXCEPT ![r.tab] = MapSet(@, r.url, now)]
          /\ done' = HoverDone(AllConsulted, LinkResponse(risk))
  /\ UNCHANGED <<tabUrl, tabVars, nextId, navs, now, bridge, script, clearDue, dashboard>>

\* postScoutScan rejected inside checkLinkSafety: the "unknown" reply
HoverScanRejected(r) ==
  /\ r \in inflight /\ r.kind = "hover"
  /\ inflight' = inflight \ {r}
  /\ IF r.tab = NoTab
     THEN /\ done' = LinkReply(r.url, UnknownReply)
          /\ UNCHANGED <<linkCache, obtained>>
     ELSE /\ linkCache' = [linkCache EXCEPT ![r.tab] = MapSet(@, r.url, UnknownReply)]
          /\ obtained' = [obtained EXCEPT ![r.tab] = MapSet(@, r.url, now)]
          /\ done' = HoverDone(AllConsulted, UnknownReply)
  /\ UNCHANGED <<tabUrl, tabVars, nextId, navs, linkVars, bridge, script, clearDue, dashboard>>

\* the content script's setInterval: linkCache.clear()
ClearLinkCache(t) ==
  /\ tabUrl[t] # Removed
  /\ now >= clearDue[t]
  /\ clearDue' = [clearDue EXCEPT ![t] = @ + CLEAR_INTERVAL_MS]
  /\ linkCache' = [linkCache EXCEPT ![t] = EmptyMap]
  /\ obtained' = [obtained EXCEPT ![t] = EmptyMap]
  /\ UNCHANGED <<tabUrl, tabVars, inflight, nextId, navs, done, linkVars, bridge, script, dashboard>>

Next ==
  \/ \E t \in Tabs, u \in TabUrls : Navigate(t, u)
  \/ \E t \in Tabs : SCOUT_SIGNAL(t)
  \/ \E r \in inflight, result \in Results : ScoutScanResolved(r, result)
  \/ \E r \in inflight : ScoutScanRejected(r)
  \/ \E f \in Tabs \cup {NoTab} : RescanTimer(f)
  \/ \E r \in inflight, result \in Results : RescanResolved(r, result)
  \/ \E r \in inflight : RescanRejected(r)
  \/ \E t \in Tabs \cup {NoTab} : getTabState(t)

Spec == Init /\ [][Next]_vars

\* The runtime message listener on its own: every message kind it consumes,
\* sent from tabs that navigate between the pages (no timers).
NextMsg ==
  \/ \E t \in Tabs, u \in TabUrls : Navigate(t, u)
  \/ \E t \in Tabs : SCOUT_SIGNAL(t)
  \/ \E r \in inflight, result \in Results : ScoutScanResolved(r, result)
  \/ \E r \in inflight : ScoutScanRejected(r)
  \/ \E t \in Tabs \cup {NoTab} : getTabState(t)
  \/ \E u \in TabUrls : fullScan(u)
  \/ \E r \in inflight, result \in Results : FullScanResolved(r, result)
  \/ \E r \in inflight : FullScanRejected(r)
  \/ \E x \in Texts : handleAnalyzeText(x)
  \/ \E r \in inflight, risk \in QuickRisks : AnalyzeTextResolved(r, risk)
  \/ \E r \in inflight : AnalyzeTextRejected(r)
  \/ \E u \in LinkUrls : checkLinkSafety(u)
  \/ \E r \in inflight, risk \in QuickRisks : LinkScanResolved(r, risk)
  \/ \E r \in inflight : LinkScanRejected(r)

SpecMsg == Init /\ [][NextMsg]_vars

\* Page loads, the periodic rescanner and link hovers together, against a
\* remote service that fails or reports a high risk.
NextLocal ==
  \/ \E t \in Tabs, u \in TabUrls : Navigate(t, u)
  \/ \E t \in Tabs : SCOUT_SIGNAL(t)
  \/ \E r \in inflight, result \in {R_high} : ScoutScanResolved(r, result)
  \/ \E r \in inflight : ScoutScanRejected(r)
  \/ \E f \in Tabs \cup {NoTab} : RescanTimer(f)
  \/ \E r \in inflight, result \in {R_high} : RescanResolved(r, result)
  \/ \E r \in inflight : RescanRejected(r)
  \/ \E t \in Tabs, href \in Hrefs : handleLinkHover(t, href)
  \/ \E r \in inflight, risk \in {85} : HoverScanResolved(r, risk)
  \/ \E r \in inflight : HoverScanRejected(r)

SpecLocal == Init /\ [][NextLocal]_vars

\* Tabs that are scanned (by either content script's message), rescanned,
\* asked about and closed.
NextTabs ==
  \/ \E t \in Tabs : SCOUT_SIGNAL(t)
  \/ \E r \in inflight, result \in Results : ScoutScanResolved(r, result)
  \/ \E r \in inflight : ScoutScanRejected(r)
  \/ \E f \in Tabs \cup {NoTab} : RescanTimer(f)
  \/ \E r \in inflight, result \in Results : RescanResolved(r, result)
  \/ \E r \in inflight : RescanRejected(r)
  \/ \E t \in Tabs \cup {NoTab} : getTabState(t)
  \/ \E t \in Tabs : CloseTab(t)
  \/ \E t \in Tabs, u \in MalformedUrls \cup {Undefined} : scanPage(t, u)

SpecTabs == Init /\ [][NextTabs]_vars

\* Page scans of the tabs and the audio alert bridge.
NextVoice ==
  \/ \E t \in Tabs : SCOUT_SIGNAL(t)
  \/ \E r \in inflight, result \in Results : ScoutScanResolved(r, result)
  \/ \E r \in inflight : ScoutScanRejected(r)
  \/ \E p \in bridge.pending : CreateDocumentResolved(p)
  \/ \E p \in bridge.pending : CreateDocumentRejected(p)

SpecVoice == Init /\ [][NextVoice]_vars

\* The content script of the pages the tabs load: the page-ready signal and
\* the paste listener, with the background's answers.
NextPage ==
  \/ \E t \in Tabs, u \in TabUrls : Navigate(t, u)
  \/ \E t \in Tabs : RunContentScript(t)
  \/ \E t \in Tabs : DOMContentLoaded(t)
  \/ \E r \in inflight, result \in Results : ScoutScanResolved(r, result)
  \/ \E r \in inflight : ScoutScanRejected(r)
  \/ \E t \in Tabs, x \in PastedTexts : Paste(t, x)
  \/ \E r \in inflight, risk \in QuickRisks : AnalyzeTextResolved(r, risk)
  \/ \E r \in inflight : AnalyzeTextRejected(r)

SpecPage == Init /\ [][NextPage]_vars

\* The web dashboard: scans arriving over the WebSocket, history fetches,
\* focus refetches and dismissals.
NextDash ==
  \/ \E a \in Alerts : onNewScan(a)
  \/ onFocus
  \/ \E f \in dashboard.fetches : FetchResolved(f)
  \/ \E f \in dashboard.fetches : FetchRejected(f)
  \/ \E a \in Alerts : onDismissAlert(a)

SpecDash == Init /\ [][NextDash]_vars

\* The link-safety cache on its own: lookups from content scripts, the remote
\* quick scan's answers, the sweep timer and the clock.
NextLink ==
  \/ \E u \in LinkUrls : checkLinkSafety(u)
  \/ \E r \in inflight, risk \in QuickRisks : LinkScanResolved(r, risk)
  \/ \E r \in inflight : LinkScanRejected(r)
  \/ SweepLinkCache
  \/ Tick

SpecLink == Init /\ [][NextLink]_vars

\* the timers keep firing and the clock keeps advancing
SpecLinkFair == SpecLink /\ WF_vars(Tick) /\ WF_vars(SweepLinkCache)

\* Link hovers on the pages the tabs show, with the page's and the
\* background's cache, within the TTL of the latter.
NextHover ==
  \/ \E t \in Tabs, href \in Hrefs : handleLinkHover(t, href)
  \/ \E r \in inflight, risk \in QuickRisks : HoverScanResolved(r, risk)
  \/ \E r \in inflight : HoverScanRejected(r)

SpecHover == Init /\ [][NextHover]_vars

\* Time passes on the pages: a timer callback that is due runs before the
\* clock moves on (it may run after other events of the same instant).
TickWithTimers ==
  /\ \A t \in Tabs : tabUrl[t] # Removed => now < clearDue[t]
  /\ Tick

\* the links hovered while the clock runs
TimedHrefs == {"https://x.com/", "http://free-prizes.tk/"}

\* Link hovers while time passes: the page's cache with its clear timer over
\* the background's cache with its TTL, on pages loaded at different times.
NextTimed ==
  \/ \E t \in Tabs : Navigate(t, SiteB)
  \/ \E t \in Tabs, href \in TimedHrefs : handleLinkHover(t, href)
  \/ \E r \in inflight, risk \in QuickRisks : HoverScanResolved(r, risk)
  \/ \E r \in inflight : HoverScanRejected(r)
  \/ \E t \in Tabs : ClearLinkCache(t)
  \/ TickWithTimers

SpecTimed == Init /\ [][NextTimed]_vars

\* performQuickLinkCheck on its own, applied to every URL of QuickInputs.
QuickInput(i) == [action |-> "input", responses |-> 0, response |-> "none", input |-> i]

InitQuick ==
  /\ tabUrl = [t \in Tabs |-> SiteA]
  /\ tabState = EmptyMap
  /\ badge = [x \in Tabs \cup {NoTab} |-> IF x = NoTab THEN SCANNING ELSE Unset]
  /\ inflight = {}
  /\ nextId = 1
  /\ navs = 0
  /\ voiceCalls = [s \in ScanIds |-> 0]
  /\ writer = [t \in Tabs |-> "none"]
  /\ latest = [t \in Tabs |-> {}]
  /\ done \in {QuickInput(i) : i \in QuickInputs}
  /\ linkSafetyCache = EmptyMap
  /\ now = 0
  /\ linkCache = [t \in Tabs |-> EmptyMap]
  /\ clearDue = [t \in Tabs |-> CLEAR_INTERVAL_MS]
  /\ obtained = [t \in Tabs |-> EmptyMap]
  /\ bridge = [surface |-> "none", pending |-> {}, sent |-> {}]
  /\ script = [t \in Tabs |-> NewPage]
  /\ dashboard = Mounted

ApplyQuickCheck ==
  /\ done' = [action |-> "performQuickLinkCheck", responses |-> 0, response |-> "none",
              input |-> done.input, result |-> performQuickLinkCheck(UrlOf(done.input))]
  /\ UNCHANGED <<tabUrl, tabVars, inflight, nextId, navs, linkVars, linkCache, clearDue, obtained, bridge, script, dashboard>>

SpecQuick == InitQuick /\ [][ApplyQuickCheck]_vars

\* setBadgeFromResult on its own, applied to every (riskScore, hasPrivacyPolicy).
ApplyBadge(t, risk, hp) ==
  /\ badge' = setBadgeFromResult([riskScore |-> risk, hasPrivacyPolicy |-> hp], t)
  /\ done' = [action |-> "setBadgeFromResult", responses |-> 0, response |-> "none",
              tab |-> t, riskScore |-> risk, hasPrivacyPolicy |-> hp]
  /\ UNCHANGED <<tabUrl, tabState, inflight, nextId, navs, voiceCalls, writer, latest, linkVars, linkCache, clearDue, obtained, bridge, script, dashboard>>

NextBadge == \E t \in Tabs, risk \in RiskScores, hp \in HasPrivacyValues : ApplyBadge(t, risk, hp)

SpecBadge == Init /\ [][NextBadge]_vars

\* ================================================================== claims
PendingScout(t) == {r \in inflight : r.kind = "signal" /\ r.tab = t}

Ids(reqs) == {r.id : r \in reqs}

\* the response to request r arrives in this step
Answered(r) == r.id \in Ids(inflight) /\ r.id \notin Ids(inflight')

\* C1: when two page scans of a tab were dispatched, the second before the
\* first answered, then once both have answered the tab's TabState is the
\* entry the second scan produced (URL and result).
C1_StaleSuppression ==
  \A t \in Tabs :
    (PendingScout(t) = {} /\ latest[t] # {} /\ writer[t] = "signal")
      => EntryOf(tabState, t) = latest[t]

\* C2: a page-scan or rescan response that arrives when the tab no longer
\* shows the URL captured at request time is discarded: neither the tab's
\* TabState nor its badge changes.
C2_StaleDiscarded ==
  [][\A r \in inflight :
       (r.kind \in {"signal", "rescan"} /\ Answered(r) /\ tabUrl[r.tab] # r.url)
         => (EntryOf(tabState', r.tab) = EntryOf(tabState, r.tab)
             /\ badge'[r.tab] = badge[r.tab])]_vars

\* C3: a SCOUT_SIGNAL whose host is localhost, 127.0.0.1 or ends in .local
\* makes no remote call, applies the localhost-safe badge and stores
\* skippedReason = localhost for the sender's tab.
C3_LocalhostSkipped ==
  [][\A t \in Tabs :
       (SCOUT_SIGNAL(t) /\ tabUrl[t] \in {LocalhostUrl, LoopbackUrl, DotLocalUrl})
         => /\ nextId' = nextId
            /\ Ids(inflight') = Ids(inflight)
            /\ ShownBadgeIn(badge', t) = LOCALHOST_SAFE
            /\ t \in DOMAIN tabState'
            /\ "skippedReason" \in DOMAIN tabState'[t]
            /\ tabState'[t].skippedReason = "localhost"]_vars

W_C3_DotLocalSkipped ==
  \E t \in Tabs :
    /\ t \in DOMAIN tabState
    /\ tabState[t] = LocalhostEntry([url |-> DotLocalUrl])
    /\ badge[t] = LOCALHOST_SAFE
    /\ inflight = {}

\* C4: whenever a ScanResult with riskScore >= 70 and a voice-alert reference
\* arrives (page-load scan or rescan), the Audio Alert Bridge has then been
\* invoked exactly once for its scanId; reading the stored result back
\* (getTabState) never invokes it.
C4_VoiceOncePerScanId ==
  [][/\ \A r \in inflight, result \in Results :
          ((ScoutScanResolved(r, result) \/ RescanResolved(r, result))
            /\ result.riskScore >= 70 /\ result.voiceAlert # "")
             => voiceCalls'[result.scanId] = 1
     /\ \A t \in Tabs \cup {NoTab} : getTabState(t) => voiceCalls' = voiceCalls]_vars

\* C5: the badge setBadgeFromResult applies is DANGER iff riskScore > 70,
\* PRIVACY iff riskScore <= 70 and hasPrivacyPolicy is true, SAFE otherwise;
\* (85,true) is DANGER, (20,true) PRIVACY, (10,false) and (45,false) SAFE.
C5_BadgeState ==
  done.action = "setBadgeFromResult" =>
    LET b == badge[done.tab]
        risk == done.riskScore
        hp == done.hasPrivacyPolicy = "true"
    IN /\ (b = DANGER) <=> (risk > 70)
       /\ (b = PRIVACY) <=> (risk <= 70 /\ hp)
       /\ (b = SAFE) <=> (risk <= 70 /\ ~hp)
       /\ (risk = 85 /\ hp) => b = DANGER
       /\ (risk = 20 /\ hp) => b = PRIVACY
       /\ (risk \in {10, 45} /\ ~hp) => b = SAFE

W_C5_RiskDominatesPrivacy ==
  /\ done.action = "setBadgeFromResult"
  /\ done.riskScore = 85 /\ done.hasPrivacyPolicy = "true"
  /\ badge[done.tab] = DANGER

\* the badge the spec derives from a TabState entry
DerivedBadge(e) ==
  IF "skippedReason" \in DOMAIN e /\ e.skippedReason = "localhost" THEN LOCALHOST_SAFE
  ELSE IF e.riskScore > 70 THEN DANGER
  ELSE IF e.hasPrivacyPolicy = "true" THEN PRIVACY
  ELSE SAFE

\* C6: for every tab with a TabState entry the badge shown is SCANNING or the
\* badge derived from that entry.
C6_BadgeMatchesEntry ==
  \A t \in DOMAIN tabState :
    ShownBadge(t) = SCANNING \/ ShownBadge(t) = DerivedBadge(tabState[t])

W_C6_PrivacyBadgeShown ==
  \E t \in DOMAIN tabState :
    /\ "fullResult" \in DOMAIN tabState[t]
    /\ tabState[t].hasPrivacyPolicy = "true"
    /\ ShownBadge(t) = PRIVACY

\* a signal, a remote response or a rescan of tab a is handled in this step
EventOfTab(a) ==
  \/ SCOUT_SIGNAL(a)
  \/ RescanTimer(a)
  \/ \E r \in inflight :
       /\ r.kind \in {"signal", "rescan"}
       /\ r.tab = a
       /\ \/ \E result \in Results : ScoutScanResolved(r, result) \/ RescanResolved(r, result)
          \/ ScoutScanRejected(r)
          \/ RescanRejected(r)

\* C7: handling a signal, a remote response or a rescan for tab a changes
\* neither the TabState entry nor the badge shown for any other tab b.
C7_OtherTabsUntouched ==
  [][\A a \in Tabs :
       EventOfTab(a) =>
         \A b \in Tabs \ {a} :
           /\ EntryOf(tabState', b) = EntryOf(tabState, b)
           /\ ShownBadgeIn(badge', b) = ShownBadgeIn(badge, b)]_vars

W_C7_TabsDiffer ==
  \E a, b \in DOMAIN tabState :
    /\ a # b
    /\ ShownBadge(a) = DANGER
    /\ ShownBadge(b) = SAFE
    /\ tabState[a].url # tabState[b].url

MessageActions == {"SCOUT_SIGNAL", "fullScan", "pasteAnalysis", "getTabState", "checkLinkSafety"}

\* C8: every message the listener consumes has received exactly one response
\* when its handler has run to completion, the localhost early return of a
\* scoutSignal included.
C8_OneResponsePerMessage ==
  done.action \in MessageActions => done.responses = 1

\* C9: when the full-pipeline call of handleScoutSignal fails, TabState gets
\* riskScore 0 and no result payload, the caller gets an error object, and no
\* further remote call is made for the signal.
C9_FailureNoRetry ==
  [][\A r \in inflight :
       (r.kind = "signal" /\ ScoutScanRejected(r))
         => /\ r.tab \in DOMAIN tabState'
            /\ tabState'[r.tab].riskScore = 0
            /\ "fullResult" \notin DOMAIN tabState'[r.tab]
            /\ done'.action = "SCOUT_SIGNAL"
            /\ done'.responses = 1
            /\ done'.response = "error"
            /\ nextId' = nextId
            /\ Ids(inflight') = Ids(inflight) \ {r.id}]_vars

W_C9_FailedScanEntry ==
  \E t \in DOMAIN tabState :
    /\ tabState[t] = [hasPrivacyPolicy |-> "false", riskScore |-> 0, url |-> SiteB]
    /\ writer[t] = "signal"
    /\ done = Finished("SCOUT_SIGNAL", 1, "error")
    /\ nextId = 2

\* C10: after a failed page scan the tab's badge is the badge a successful
\* scan returning riskScore = 0 for the same signal produces; it is neither
\* DANGER nor SCANNING.
C10_FailOpenBadge ==
  [][\A r \in inflight :
       (r.kind = "signal" /\ ScoutScanRejected(r))
         => /\ badge' = ResultBadge(r, [riskScore |-> 0])
            /\ ShownBadgeIn(badge', r.tab) \in {SAFE, PRIVACY}
            /\ ShownBadgeIn(badge', r.tab) \notin {DANGER, SCANNING}]_vars

W_C10_FailedScanShowsPrivacy ==
  \E t \in DOMAIN tabState :
    /\ tabState[t] = [hasPrivacyPolicy |-> "true", riskScore |-> 0, url |-> SiteA]
    /\ badge[t] = PRIVACY
    /\ writer[t] = "signal"

\* BadgeState of the specification, for a scanned (not skipped) page
badgeState(riskScore, hasPrivacyPolicy) ==
  IF riskScore > 70 THEN DANGER
  ELSE IF hasPrivacyPolicy = "true" THEN PRIVACY
  ELSE SAFE

\* C11: after a successful handleScoutSignal the tab's TabState has riskScore
\* and result payload from the remote result, url and hasPrivacyPolicy from
\* the signal (not from the result), and the badge applied is
\* badgeState(result.riskScore, signal.hasPrivacyPolicy).
C11_SuccessEntry ==
  [][\A r \in inflight, result \in Results :
       (r.kind = "signal" /\ ScoutScanResolved(r, result))
         => /\ r.tab \in DOMAIN tabState'
            /\ tabState'[r.tab].riskScore = result.riskScore
            /\ tabState'[r.tab].fullResult = result
            /\ tabState'[r.tab].url = r.url
            /\ tabState'[r.tab].hasPrivacyPolicy = r.hp
            /\ r.hp = hasPrivacyPolicyLinks(r.url)
            /\ tabState'[r.tab].hasPrivacyPolicy # result.hasPrivacyPolicy
            /\ badge'[r.tab] = badgeState(result.riskScore, r.hp)]_vars

W_C11_ScanStoredWithSignalPrivacy ==
  \E t \in DOMAIN tabState :
    /\ tabState[t] = [hasPrivacyPolicy |-> "true", riskScore |-> 10, url |-> SiteA,
                      fullResult |-> R_safe]
    /\ badge[t] = PRIVACY
    /\ done = Finished("SCOUT_SIGNAL", 1, "result")

\* the request a page-load scan of the page the rescan request r scanned
\* would have carried
PageLoadOf(r) ==
  [tab |-> r.tab, url |-> r.url, hp |-> hasPrivacyPolicyLinks(r.url)]

\* C12: a successful periodic rescan of a tab updates TabState and the badge
\* exactly as a successful page-load scan of the same URL with the same
\* remote result would (same riskScore, url, result payload, hasPrivacyPolicy
\* and badge); a tab whose entry had hasPrivacyPolicy = true for that URL
\* keeps it, and keeps the PRIVACY badge when riskScore <= 70.
C12_RescanAsPageLoad ==
  [][\A r \in inflight, result \in Results :
       (r.kind = "rescan" /\ RescanResolved(r, result))
         => /\ tabState'[r.tab] = ScoutEntry(PageLoadOf(r), result)
            /\ badge' = ResultBadge(PageLoadOf(r), result)
            /\ (/\ r.tab \in DOMAIN tabState
                /\ tabState[r.tab].url = r.url
                /\ tabState[r.tab].hasPrivacyPolicy = "true")
               => /\ tabState'[r.tab].hasPrivacyPolicy = "true"
                  /\ (result.riskScore <= 70 => badge'[r.tab] = PRIVACY)]_vars

\* C13: when a periodic rescan fails (no focused tab can be resolved, or the
\* remote call fails) the failure is swallowed: from the timer firing to the
\* failure the rescan changes no tab's TabState entry or badge, and no error
\* (no response at all) reaches any caller.
C13_RescanFailureSwallowed ==
  [][/\ \A f \in Tabs \cup {NoTab} :
          RescanTimer(f) => (tabState' = tabState /\ badge' = badge)
     /\ (RescanTimer(NoTab) \/ \E r \in inflight : r.kind = "rescan" /\ RescanRejected(r))
          => /\ tabState' = tabState
             /\ badge' = badge
             /\ voiceCalls' = voiceCalls
             /\ done'.responses = 0
             /\ done'.response = "none"]_vars

W_C13_FailedRescanKeepsDanger ==
  /\ done = Finished("rescan", 0, "none")
  /\ navs = 0
  /\ inflight = {}
  /\ nextId = 3
  /\ writer[1] = "signal" /\ writer[2] = "none"
  /\ "fullResult" \in DOMAIN tabState[1]
  /\ badge[1] = DANGER

\* pages and links whose host is localhost, 127.0.0.1 or ends in .local
LocalPages == {LocalhostUrl, LoopbackUrl, DotLocalUrl}

LocalHrefs == {"http://localhost:3000/admin", "http://127.0.0.1:8000/", "http://NAS.local/files"}

RelativeHrefs == {"/account"}

\* the link href, shown on the page pageUrl, points to a local host
LocalLink(href, pageUrl) ==
  href \in LocalHrefs \/ (href \in RelativeHrefs /\ pageUrl \in LocalPages)

\* the remote call r, issued while the tabs showed the pages urls, is for a
\* URL on a local host
LocalRequest(r, urls) ==
  \/ r.kind \in {"signal", "rescan"} /\ r.url \in LocalPages
  \/ r.kind = "hover" /\ LocalLink(r.url, IF r.tab = NoTab THEN SiteA ELSE urls[r.tab])

\* C14: over page loads, rescan timer firings and link hovers no remote call
\* (full pipeline or quick scan) is issued for a URL whose host is localhost,
\* 127.0.0.1 or ends in .local; the rescanner skips such a focused tab as
\* handleScoutSignal does and changes no state.
C14_NoRemoteCallForLocalhost ==
  [][/\ \A r \in inflight' : r.id \notin Ids(inflight) => ~LocalRequest(r, tabUrl)
     /\ \A f \in Tabs :
          (tabUrl[f] \in LocalPages /\ RescanTimer(f))
            => UNCHANGED <<tabUrl, tabState, badge, voiceCalls, inflight, nextId,
                           linkSafetyCache, linkCache>>]_vars

W_C14_LocalhostPageAndLinkSkipped ==
  \E t \in DOMAIN tabState :
    /\ tabUrl[t] \in LocalPages
    /\ "skippedReason" \in DOMAIN tabState[t]
    /\ done = HoverDone(<<>>, [reason |-> "skipped"])
    /\ nextId = 1

StoredFields == {"riskScore", "status", "reason"}

\* a remote quick-scan call for url is issued in this step
RemoteCallFor(url) ==
  /\ nextId' = nextId + 1
  /\ \E r \in inflight' : r.id = nextId /\ r.url = url /\ r.id \notin Ids(inflight)

\* C15: link-safety cache round trip. A checkLinkSafety(url) that immediately
\* follows a successful one returns the stored result annotated cached = true
\* without a remote call; once time has passed the 5-minute TTL and the sweep
\* has run, the entry is gone and checkLinkSafety(url) calls the remote again.
C15_LinkCacheRoundTrip ==
  [][\A u \in LinkUrls :
       /\ \A r \in inflight, risk \in QuickRisks :
            (r.url = u /\ LinkScanResolved(r, risk))
              => (u \in DOMAIN linkSafetyCache' /\ linkSafetyCache'[u].result = done'.value)
       /\ (u \in DOMAIN linkSafetyCache /\ linkSafetyCache[u].timestamp = now
           /\ checkLinkSafety(u))
            => /\ DOMAIN done'.value = StoredFields \cup {"cached"}
               /\ \A f \in StoredFields : done'.value[f] = linkSafetyCache[u].result[f]
               /\ done'.value.cached = TRUE
               /\ done'.url = u
               /\ nextId' = nextId /\ inflight' = inflight
       /\ (u \in DOMAIN linkSafetyCache /\ now - linkSafetyCache[u].timestamp > 5 * 60 * 1000
           /\ SweepLinkCache)
            => u \notin DOMAIN linkSafetyCache'
       /\ (u \notin DOMAIN linkSafetyCache /\ checkLinkSafety(u)) => RemoteCallFor(u)]_vars

W_C15_HitThenSweptThenMiss ==
  /\ done.action = "checkLinkSafety"
  /\ done.value = [riskScore |-> 85, status |-> "dangerous",
                   reason |-> "Suspicious indicators detected", cached |-> TRUE]
  /\ linkSafetyCache = EmptyMap
  /\ now > 5 * 60 * 1000
  /\ inflight = {[id |-> 2, kind |-> "link", url |-> done.url]}

\* the values Date.now() takes, and the last of them
Times == {k * TickMs : k \in 0..MaxTicks}

Horizon == MaxTicks * TickMs

\* C16: every entry stored in the link-safety cache and not stored again is
\* eventually removed by the periodic sweep, lookups or not (for every entry
\* whose TTL ends before the clock's last value), and a sweep removes only
\* entries older than the 5-minute TTL and leaves the others unchanged.
C16_SweepEvicts ==
  /\ \A u \in LinkUrls, ts \in Times :
       ts + 5 * 60 * 1000 < Horizon =>
         ((u \in DOMAIN linkSafetyCache /\ linkSafetyCache[u].timestamp = ts)
            ~> (u \notin DOMAIN linkSafetyCache \/ linkSafetyCache[u].timestamp # ts))
  /\ [][SweepLinkCache =>
          \A u \in DOMAIN linkSafetyCache :
            IF now - linkSafetyCache[u].timestamp > 5 * 60 * 1000
            THEN u \notin DOMAIN linkSafetyCache'
            ELSE u \in DOMAIN linkSafetyCache' /\ linkSafetyCache'[u] = linkSafetyCache[u]]_vars

W_C16_OldSweptYoungKept ==
  /\ now = Horizon
  /\ DOMAIN linkSafetyCache = {"https://y.com/"}
  /\ now - linkSafetyCache["https://y.com/"].timestamp = TickMs
  /\ done = LinkReply("https://y.com/", LinkResponse(50))
  /\ nextId = 3
  /\ inflight = {}

Caches == {"linkCache", "linkSafetyCache"}

\* the positions of the lookups named in names within the sequence consulted
PositionsOf(consulted, names) == {i \in 1..Len(consulted) : consulted[i] \in names}

\* the links of the pages that the heuristic filter flags (low-trust TLD)
FlaggedHrefs == {"http://free-prizes.tk/"}

\* the remote quick scan is called only for a link the heuristic filter does
\* not flag and neither cache holds (the background's: within its TTL)
RemoteOnlyAfterMisses ==
  \A r \in inflight' :
    (r.kind = "hover" /\ r.id \notin Ids(inflight))
      => /\ r.url \notin FlaggedHrefs
         /\ r.url \notin DOMAIN linkCache[r.tab]
         /\ ~(r.url \in DOMAIN linkSafetyCache
              /\ now - linkSafetyCache[r.url].timestamp < 5 * 60 * 1000)

\* C17 as stated: a link-hover check consults the link-safety cache first,
\* then the link heuristic filter, and issues the remote quick-scan call only
\* if both miss.
C17_CacheThenHeuristic ==
  [][/\ (done'.action = "hover" /\ done'.consulted # <<>>)
          => /\ done'.consulted[1] \in Caches
             /\ \A i \in PositionsOf(done'.consulted, {"performQuickLinkCheck"}) :
                  \E j \in PositionsOf(done'.consulted, Caches) : j < i
     /\ RemoteOnlyAfterMisses]_vars

\* C17 amended: a link-hover check consults the link heuristic filter first,
\* then the page's link cache and the background's link-safety cache, and
\* issues the remote quick-scan call only if all of them miss.
C17_HeuristicThenCaches ==
  [][/\ (done'.action = "hover" /\ done'.consulted # <<>>)
          => /\ done'.consulted[1] = "performQuickLinkCheck"
             /\ \A i \in PositionsOf(done'.consulted, Caches) :
                  \E j \in PositionsOf(done'.consulted, {"performQuickLinkCheck"}) : j < i
             /\ \A i \in PositionsOf(done'.consulted, {"postScoutScan"}) :
                  /\ Caches \subseteq {done'.consulted[j] : j \in 1..(i - 1)}
                  /\ i = Len(done'.consulted)
     /\ RemoteOnlyAfterMisses]_vars

W_C17_BackgroundCacheHit ==
  /\ done.action = "hover"
  /\ done.consulted = <<"performQuickLinkCheck", "linkCache", "linkSafetyCache">>
  /\ done.result.cached = TRUE
  /\ \E t \in Tabs : DOMAIN linkCache[t] = {"https://x.com/"}
  /\ inflight = {}

\* after the step, result is held for href as a {risk, reason} pair by the
\* background's link-safety cache or by the link cache of tab t's page
StoredAsRiskReason(t, href, result) ==
  /\ DOMAIN result = {"risk", "reason"}
  /\ \/ href \in DOMAIN linkSafetyCache' /\ linkSafetyCache'[href].result = result
     \/ href \in DOMAIN linkCache'[t] /\ linkCache'[t][href] = result

\* C18: after any link-hover check completes, its result is stored in the
\* link-safety cache as a {risk, reason} pair, whichever path produced it
\* (heuristic filter, remote quick scan success, remote quick scan failure).
C18_HoverResultCached ==
  [][/\ \A t \in Tabs, href \in Hrefs :
          (handleLinkHover(t, href) /\ nextId' = nextId /\ done'.consulted # <<>>)
            => StoredAsRiskReason(t, href, done'.result)
     /\ \A r \in inflight :
          (r.kind = "hover"
           /\ (HoverScanRejected(r) \/ \E risk \in QuickRisks : HoverScanResolved(r, risk)))
            => StoredAsRiskReason(r.tab, r.url, done'.result)]_vars

LowTrustTLDs == {"tk", "ml", "ga", "cf", "gq", "xyz", "top", "work", "click", "link"}

\* the risk of the first rule of the link heuristic filter that the URL i
\* matches, in the order low-trust TLD, urgency vocabulary in the URL, bare
\* IPv4 host, more than four host labels; 0 when it matches none
FirstRuleRisk(i) ==
  IF i.host.tld \in LowTrustTLDs THEN 75
  ELSE IF i.host.urgent \/ i.path.urgent THEN 60
  ELSE IF i.host.ipv4 THEN 70
  ELSE IF i.host.labels > 4 THEN 55
  ELSE 0

\* C19: performQuickLinkCheck applies its rules in the order low-trust TLD,
\* urgency vocabulary in the URL, bare IPv4 host, more than four host labels;
\* its result is that of the first matching rule alone (risk 75, 60, 70, 55,
\* never summed), and suspicious = false when no rule matches.
C19_FirstMatchingRule ==
  done.action = "performQuickLinkCheck" =>
    IF FirstRuleRisk(done.input) = 0
    THEN done.result = [suspicious |-> FALSE]
    ELSE done.result.suspicious /\ done.result.risk = FirstRuleRisk(done.input)

KeepsUnnamed(t, partial) ==
  t \in DOMAIN tabState =>
    \A f \in DOMAIN tabState[t] \ DOMAIN partial :
      /\ t \in DOMAIN tabState'
      /\ f \in DOMAIN tabState'[t]
      /\ tabState'[t][f] = tabState[t][f]

\* after the step tab t's entry holds the fields named and no other
HoldsExactly(t, fields) == t \in DOMAIN tabState' /\ DOMAIN tabState'[t] = fields

LocalhostFields == {"url", "riskScore", "hasPrivacyPolicy", "skippedReason"}

SuccessFields == {"hasPrivacyPolicy", "riskScore", "url", "fullResult"}

FailureFields == {"hasPrivacyPolicy", "riskScore", "url"}

\* C21 as stated: writing a partial TabState for a tab merges into the
\* existing entry; every field the write does not name keeps its prior value
\* (a scan result written after a localhost skip, a failure written after a
\* success).
C21_WriteMerges ==
  [][/\ \A t \in Tabs :
          (SCOUT_SIGNAL(t) /\ tabUrl[t] \in LocalPages)
            => KeepsUnnamed(t, [f \in LocalhostFields |-> 0])
     /\ \A r \in inflight :
          /\ (r.kind = "signal" /\ ScoutScanRejected(r))
               => KeepsUnnamed(r.tab, [f \in FailureFields |-> 0])
          /\ \A result \in Results :
               (ScoutScanResolved(r, result) \/ RescanResolved(r, result))
                 => KeepsUnnamed(r.tab, [f \in SuccessFields |-> 0])]_vars

\* C21 amended: writing a TabState for a tab replaces the existing entry;
\* after the write the entry holds exactly the fields the write names (a scan
\* result written after a localhost skip drops skippedReason, a failure
\* written after a success drops the result payload), and no other tab's
\* entry changes.
C21_WriteReplaces ==
  [][/\ \A t \in Tabs :
          (SCOUT_SIGNAL(t) /\ tabUrl[t] \in LocalPages)
            => /\ HoldsExactly(t, LocalhostFields)
               /\ MapDelete(tabState', {t}) = MapDelete(tabState, {t})
     /\ \A r \in inflight :
          /\ (r.kind = "signal" /\ ScoutScanRejected(r))
               => /\ HoldsExactly(r.tab, FailureFields)
                  /\ MapDelete(tabState', {r.tab}) = MapDelete(tabState, {r.tab})
          /\ \A result \in Results :
               (ScoutScanResolved(r, result) \/ RescanResolved(r, result))
                 => /\ HoldsExactly(r.tab, SuccessFields)
                    /\ MapDelete(tabState', {r.tab}) = MapDelete(tabState, {r.tab})]_vars

W_C21_FailureAfterSuccessDropsPayload ==
  /\ writer[1] = "signal" /\ writer[2] = "none"
  /\ voiceCalls["s3"] = 1
  /\ inflight = {}
  /\ nextId = 3
  /\ tabState[1] = [hasPrivacyPolicy |-> "true", riskScore |-> 0, url |-> SiteA]

\* C22: the Tab State Store holds entries only for live tabs: an entry is
\* deleted when its tab closes, no entry exists for a closed tab, and
\* getTabState for a closed tab returns null.
C22_OnlyLiveTabs ==
  /\ [](\A t \in DOMAIN tabState : tabUrl[t] # Removed)
  /\ [][\A t \in Tabs :
          /\ CloseTab(t) => t \notin DOMAIN tabState'
          /\ (tabUrl[t] = Removed /\ getTabState(t)) => done'.response = "null"]_vars

\* the full-pipeline calls for tab t that await their response
PendingScans(t) == {r \in inflight : r.kind \in {"signal", "rescan"} /\ r.tab = t}

\* C23: at most one scan request is in flight per tab at any time;
\* dispatching a second scan for a tab (page load or rescan) does not leave
\* the first one running alongside it.
C23_OneScanInFlightPerTab ==
  \A t \in Tabs : Cardinality(PendingScans(t)) <= 1

\* a full-pipeline call for tab t's page scan is issued in this step
ScoutCallIssued(t) ==
  \E r \in inflight' : r.kind = "signal" /\ r.tab = t /\ r.id \notin Ids(inflight)

\* C24: when handleScoutSignal dispatches a scan for a non-localhost URL, the
\* tab's badge is SCANNING when the remote full-pipeline call is issued, and
\* SCANNING is the badge every tab shows before any signal or rescan has been
\* handled.
C24_ScanningBeforeCall ==
  /\ [](((\A t \in Tabs : writer[t] = "none") /\ nextId = 1)
          => \A t \in Tabs : ShownBadge(t) = SCANNING)
  /\ [][\A t \in Tabs :
          /\ (SCOUT_SIGNAL(t) /\ tabUrl[t] \notin LocalPages) => ScoutCallIssued(t)
          /\ ScoutCallIssued(t) => badge'[t] = SCANNING]_vars

W_C24_ScanningReplacesDanger ==
  \E t \in Tabs :
    /\ writer[t] = "signal"
    /\ "fullResult" \in DOMAIN tabState[t]
    /\ tabState[t].riskScore = 85
    /\ badge[t] = SCANNING
    /\ PendingScout(t) # {}

\* C25: when signal.url cannot be parsed as a URL, handleScoutSignal does not
\* reject or skip: it sets the SCANNING badge and issues the remote
\* full-pipeline call for that URL, as it does for a valid non-localhost URL,
\* and writes no TabState and answers nothing until the call returns.
C25_MalformedUrlScanned ==
  [][\A t \in Tabs, u \in MalformedUrls :
       scanPage(t, u)
         => /\ badge'[t] = SCANNING
            /\ nextId' = nextId + 1
            /\ \E r \in inflight' :
                 /\ r = [id |-> nextId, kind |-> "signal", tab |-> t, url |-> u,
                         hp |-> "false", superseded |-> FALSE]
                 /\ r.id \notin Ids(inflight)
            /\ tabState' = tabState
            /\ done' = done]_vars

W_C25_MalformedUrlPending ==
  \E r \in inflight :
    /\ r.kind = "signal"
    /\ r.url = "not a url"
    /\ badge[r.tab] = SCANNING
    /\ tabUrl[r.tab] = SiteA
    /\ r.tab \notin DOMAIN tabState

\* C26: a manual scan (fullScan message) always issues the remote
\* full-pipeline call, for localhost URLs too, and answers with the result or
\* with an error object; it changes no TabState entry and no badge.
C26_ManualScanAlwaysCalls ==
  [][/\ \A u \in TabUrls :
          fullScan(u)
            => /\ nextId' = nextId + 1
               /\ inflight' = inflight \cup {[id |-> nextId, kind |-> "fullScan", url |-> u]}
               /\ tabState' = tabState /\ badge' = badge
     /\ \A r \in inflight :
          r.kind = "fullScan"
            => /\ (\E result \in Results : FullScanResolved(r, result))
                    => /\ done' = Finished("fullScan", 1, "result")
                       /\ tabState' = tabState /\ badge' = badge
               /\ FullScanRejected(r)
                    => /\ done' = Finished("fullScan", 1, "error")
                       /\ tabState' = tabState /\ badge' = badge]_vars

W_C26_LocalhostManualScan ==
  \E r \in inflight, t \in DOMAIN tabState :
    /\ r.kind = "fullScan"
    /\ r.url = LocalhostUrl
    /\ tabUrl[t] = LocalhostUrl
    /\ tabState[t].url = LocalhostUrl
    /\ "skippedReason" \in DOMAIN tabState[t]
    /\ badge[t] = LOCALHOST_SAFE

\* C27: returning the ScanResult to the caller of a page scan never waits on
\* the audio alert bridge: the response is delivered in the handler run that
\* invokes the bridge, while the creation of the playback surface is still
\* pending, and no later step of the bridge (creation resolved or rejected,
\* playVoice sent) sends or withholds a response.
C27_ResponseBeforeBridge ==
  [][/\ \A r \in inflight, result \in Results :
          (r.kind = "signal" /\ ScoutScanResolved(r, result))
            => /\ done' = Finished("SCOUT_SIGNAL", 1, "result")
               /\ PlaysVoice(result) =>
                    \E p \in bridge'.pending : p.id = r.id /\ p \notin bridge.pending
     /\ \A p \in bridge.pending :
          (CreateDocumentResolved(p) \/ CreateDocumentRejected(p)) => done' = done]_vars

W_C27_RespondedWhileSurfaceLoads ==
  /\ done = Finished("SCOUT_SIGNAL", 1, "result")
  /\ bridge.surface = "loading"
  /\ bridge.sent = {}
  /\ \E p \in bridge.pending : p.creates /\ p.audioSrc = "http://localhost:8000/audio/alert.mp3"
  /\ inflight = {}
  /\ nextId = 2

\* C28: for every invocation of playHighRiskVoiceAlert with a non-empty
\* reference exactly one playVoice command reaches the playback surface,
\* whether creating the surface succeeded or failed because it already
\* exists; with concurrent invocations no play command is lost.
C28_OnePlayVoicePerInvocation ==
  /\ \A s \in bridge.sent : s.received
  /\ \A s1, s2 \in bridge.sent : s1.id = s2.id => s1 = s2
  /\ \A s \in bridge.sent : \A p \in bridge.pending : p.id # s.id

\* the page of tab t is ready and its content script has run
PageReady(t) == script[t].injected /\ script[t].readyState # "loading"

\* C29 as stated: the signal extractor dispatches the ScoutSignal exactly
\* once per page-ready event, for every page, whether the document is still
\* loading or already loaded when the script runs.
C29_OnceForEveryPage ==
  \A t \in Tabs :
    /\ script[t].signals <= 1
    /\ PageReady(t) => script[t].signals = 1

\* C29 amended: the signal extractor dispatches the ScoutSignal exactly once
\* per page-ready event for every page whose host is not localhost, 127.0.0.1
\* or *.local, whether the document is still loading or already loaded when
\* the script runs, and never for a page on such a host.
C29_OnceForEveryRemotePage ==
  \A t \in Tabs :
    /\ script[t].signals <= 1
    /\ ~PageReady(t) => script[t].signals = 0
    /\ PageReady(t) => script[t].signals = IF tabUrl[t] \in LocalPages THEN 0 ELSE 1

W_C29_LoadedBeforeScriptAndLocalSkipped ==
  /\ PageReady(1) /\ ~script[1].listening /\ script[1].signals = 1 /\ tabUrl[1] = SiteA
  /\ PageReady(2) /\ script[2].listening /\ script[2].signals = 0 /\ tabUrl[2] = DotLocalUrl

\* the step sends exactly one analysis message, for the text x
OneAnalysisMessage(x) ==
  /\ nextId' = nextId + 1
  /\ inflight' = inflight \cup {[id |-> nextId, kind |-> "analyzeText", text |-> x,
                                  body |-> AnalyzeTextBodyOf[x]]}

\* the step sends no message and reports no error
PasteDropped ==
  /\ nextId' = nextId
  /\ inflight' = inflight
  /\ done'.responses = 0
  /\ done'.response = "none"

\* C30 as stated: a paste event whose text is shorter than 10 characters is
\* dropped (no analysis message, no error), and a paste event whose text has
\* at least 10 characters produces exactly one analysis message.
C30_PasteMinimum10 ==
  [][\A t \in Tabs, x \in PastedTexts :
       Paste(t, x) => IF Len(x) < 10 THEN PasteDropped ELSE OneAnalysisMessage(x)]_vars

\* C30 amended: a paste event whose text has at most 10 characters is dropped
\* (no analysis message, no error), and a paste event whose text has more
\* than 10 characters produces exactly one analysis message.
C30_PasteMoreThan10 ==
  [][\A t \in Tabs, x \in PastedTexts :
       Paste(t, x) => IF Len(x) <= 10 THEN PasteDropped ELSE OneAnalysisMessage(x)]_vars

W_C30_TenDroppedElevenSent ==
  /\ done = [action |-> "paste", responses |-> 0, response |-> "none", text |-> "click here"]
  /\ inflight = {[id |-> 1, kind |-> "analyzeText", text |-> "verify now!",
                  body |-> AnalyzeTextBodyOf["verify now!"]]}
  /\ nextId = 2

\* ------------------------------------------------------------------ C31
SeqRange(q) == {q[i] : i \in 1..Len(q)}

\* the keywords a quick-scan request body reports
RequestKeywords(body) ==
  SeqRange(body.detectedKeywords) \cup SeqRange(body.detectedScam)
    \cup SeqRange(body.detectedMalware)

\* C31: every keyword that the signal extractor's keyword sets match in an
\* analysed text is reported in the detected-keyword fields of the quick-scan
\* request built for it; for a text with "urgent" and "verify your account",
\* both are in the request
C31_AllMatchedKeywordsSent ==
  \A r \in inflight :
    r.kind = "analyzeText" =>
      SeqRange(DetectedKeywordsOf[r.text].all) \subseteq RequestKeywords(r.body)

\* ------------------------------------------------------------------ C32
\* the risk class of a score: >70 high, >=40 medium, else safe
RiskClassOf(score) == IF score > 70 THEN "danger" ELSE IF score >= 40 THEN "warning" ELSE "safe"

\* C32: the checkLinkSafety response built from a quick-scan result carries
\* the score in the field risk, and the tooltip rendered from that response
\* shows the score the remote quick scan returned and its risk class
C32_TooltipShowsRemoteScore ==
  [][\A r \in inflight, risk \in QuickRisks :
       HoverScanResolved(r, risk) /\ r.tab # NoTab =>
         LET score == IF risk = NullRisk THEN 0 ELSE risk
             tooltip == showLinkTooltip(done'.result)
         IN  /\ "risk" \in DOMAIN done'.result
             /\ tooltip.risk = score
             /\ tooltip.riskClass = RiskClassOf(score)]_vars

\* ------------------------------------------------------------------ C33
\* the handler run of a page-scan result invokes the audio alert bridge
BridgeInvoked(r) == \E p \in bridge'.pending : p.id = r.id /\ p \notin bridge.pending

\* C33: whenever the audio alert bridge is invoked for a page-scan result of
\* a tab, the badge applied for that tab from the same result is DANGER
C33_VoiceImpliesDanger ==
  [][\A r \in inflight, result \in Results :
       (ScoutScanResolved(r, result) /\ BridgeInvoked(r)) => badge'[r.tab] = DANGER]_vars

\* C33 (amended): the bridge is invoked for a page-scan result exactly when
\* its riskScore is at least 70 and it names a voice alert; the badge applied
\* from the same result is DANGER when the riskScore is above 70, and for a
\* riskScore of exactly 70 it is PRIVACY or SAFE by the signal's privacy flag
C33_VoiceFrom70DangerAbove70 ==
  [][\A r \in inflight, result \in Results :
       ScoutScanResolved(r, result) =>
         /\ BridgeInvoked(r) <=> (result.riskScore >= 70 /\ result.voiceAlert # "")
         /\ BridgeInvoked(r) =>
              badge'[r.tab] = IF result.riskScore > 70 THEN DANGER
                              ELSE IF r.hp = "true" THEN PRIVACY
                              ELSE SAFE]_vars

W_C33_VoiceAtSeventyWithoutDanger ==
  \E t \in Tabs :
    /\ t \in DOMAIN tabState /\ tabState[t].riskScore = 70
    /\ badge[t] = PRIVACY
    /\ \E p \in bridge.pending : p.audioSrc = "http://localhost:8000/audio/alert.mp3"
    /\ done = Finished("SCOUT_SIGNAL", 1, "result")

\* ------------------------------------------------------------------ C34
\* the link-safety cache holds an entry for u that has reached its TTL
ExpiredEntry(u) ==
  u \in DOMAIN linkSafetyCache /\ now - linkSafetyCache[u].timestamp >= 5 * 60 * 1000

\* C34: checkLinkSafety never returns a cached result older than the
\* 5-minute TTL, swept or not: a lookup answered from the cache finds an
\* entry younger than the TTL, a lookup that finds an expired entry still in
\* the map calls the remote quick scan and answers nothing from the cache,
\* and the remote result replaces the expired entry with the current time
\* (a failed remote call is answered "unknown", never from the expired entry)
C34_ExpiredEntryIsMiss ==
  [][/\ \A u \in LinkUrls :
          /\ (checkLinkSafety(u) /\ nextId' = nextId)
               => /\ u \in DOMAIN linkSafetyCache
                  /\ now - linkSafetyCache[u].timestamp < 5 * 60 * 1000
          /\ (ExpiredEntry(u) /\ checkLinkSafety(u))
               => /\ RemoteCallFor(u)
                  /\ done' = done
                  /\ linkSafetyCache' = linkSafetyCache
     /\ \A r \in inflight, risk \in QuickRisks :
          (ExpiredEntry(r.url) /\ LinkScanResolved(r, risk))
            => /\ linkSafetyCache'[r.url] = [result |-> done'.value, timestamp |-> now]
               /\ "cached" \notin DOMAIN done'.value
               /\ done'.value.riskScore = IF risk = NullRisk THEN 0 ELSE risk
     /\ \A r \in inflight :
          (ExpiredEntry(r.url) /\ LinkScanRejected(r))
            => done'.value = UnknownReply /\ linkSafetyCache' = linkSafetyCache]_vars

W_C34_ExpiredEntryLookedUp ==
  \E u \in LinkUrls :
    /\ ExpiredEntry(u)
    /\ linkSafetyCache[u].timestamp = 0
    /\ inflight = {[id |-> 2, kind |-> "link", url |-> u]}
    /\ done = LinkReply(u, LinkResponse(85))

\* ------------------------------------------------------------------ C35
\* C35: a link-safety result shown in the hover tooltip from the page's
\* linkCache or from the background's linkSafetyCache was obtained from the
\* remote quick scan at most one TTL (5 minutes) before it is shown
C35_ShownWithinOneTtl ==
  [][\A t \in Tabs, href \in TimedHrefs :
       (handleLinkHover(t, href) /\ done' # done /\ Len(done'.consulted) >= 2) =>
         /\ href \in DOMAIN linkCache[t] => now - obtained[t][href] <= 5 * 60 * 1000
         /\ href \notin DOMAIN linkCache[t] =>
              now - linkSafetyCache[href].timestamp <= 5 * 60 * 1000]_vars

====
